---- MODULE Spec2Model ----
(***************************************************************************)
(* ResolumeAgentClient (src/resolume_mcp/client.py): the WebSocket client  *)
(* that mirrors Resolume's composition, correlates commands with their     *)
(* state echo and reconnects after a closure.                              *)
(*                                                                         *)
(* The client runs on one asyncio event loop.  Every action below is the   *)
(* code one task runs between two suspension points (an await that can     *)
(* yield): websockets.connect, the wait for _state_ready, asyncio.sleep,   *)
(* ws.close, the wait for an ACK future, and the listener's socket read.   *)
(* ws.send is taken as not yielding (it yields only on a full write        *)
(* buffer).  A socket closure is the closure that makes the listener's     *)
(* `async for` raise ConnectionClosed.  A task that waits for _state_ready *)
(* is woken by the set() that finds it waiting (Event.wait returns True    *)
(* even when the event is cleared before the task runs again), and does    *)
(* not wait at all when the event is already set.                          *)
(***************************************************************************)
EXTENDS Integers, Sequences, FiniteSets, TLC

VARIABLES
  dry_run,          \* self.dry_run
  ws,               \* self.ws: a socket id, or NoSocket for None
  state,            \* self.state: the mirrored composition tree
  connected,        \* self._connected
  state_ready,      \* self._state_ready (asyncio.Event)
  pending_ack,      \* self._pending_ack: raw path -> future (the id of its call)
  listen_task,      \* self._listen_task: the listener's socket id, or NoTask
  reconnect_task,   \* self._reconnect_task: a supervisor id, or NoTask
  subscriptions,    \* self._subscriptions
  sock,             \* every socket websockets.connect has returned, and its listener task
  wire,             \* the frames written to each socket, in order
  sup,              \* every _reconnect_loop task
  fut,              \* the future of each send_and_wait call
  call,             \* each send_and_wait call's position
  ctl,              \* the caller of connect() / disconnect(): its position, its last
                    \* call, the socket its running connect() has opened and whether
                    \* a full-state frame has been processed on that socket
  nsend,            \* number of subscribe/unsubscribe calls made so far
  delay,            \* the backoff delay _reconnect_loop computed last (line 181)
  boot,             \* the bootstrap_deck call: its position, arguments and clip tasks
  tool              \* the tool layer: the number of the instance _client names (0 for
                    \* None) and the get_client calls made so far

vars == <<dry_run, ws, state, connected, state_ready, pending_ack, listen_task,
          reconnect_task, subscriptions, sock, wire, sup, fut, call, ctl, nsend, delay,
          boot, tool>>

(***************************************************************************)
(* Bounds of the model.                                                    *)
(***************************************************************************)
MaxSockets == 2            \* sockets opened over a run
MaxCalls == 2              \* send_and_wait calls over a run
MaxSubOps == 2             \* subscribe / unsubscribe calls over a run
max_reconnect_attempts == 2 \* the constructor's max_reconnect_attempts

NoSocket == 0
NoTask == 0
Sockets == 1..MaxSockets
Calls == 1..MaxCalls

(***************************************************************************)
(* JSON values.  A node of the tree is a mapping, a sequence or a scalar.  *)
(***************************************************************************)
Dict(f) == [t |-> "dict", kv |-> f]
List(s) == [t |-> "list", items |-> s]
Num(n) == [t |-> "num", v |-> n]
Str(s) == [t |-> "str", v |-> s]
Bool(b) == [t |-> "bool", v |-> b]
Null == [t |-> "null"]

IsDict(n) == n.t = "dict"

\* The characters of a string scalar.  Every string of the model's trees has
\* one character, except the layer name of the spec's scenario.
Chars(s) == IF s = "Layer 1" THEN <<"L", "a", "y", "e", "r", " ", "1">> ELSE <<s>>

\* int(seg): the segments Python's int() accepts, among those of the model.
IsIntLiteral(seg) == seg \in {"0", "1", "2", "3", "7", "-1"}
IntOf(seg) ==
  CASE seg = "0" -> 0
    [] seg = "1" -> 1
    [] seg = "2" -> 2
    [] seg = "3" -> 3
    [] seg = "7" -> 7
    [] seg = "-1" -> -1

\* f"{param_id}" for the ids of the model.
IntStr(n) ==
  CASE n = 0 -> "0"
    [] n = 1 -> "1"
    [] n = 2 -> "2"
    [] n = 3 -> "3"
    [] n = 7 -> "7"
    [] n = -1 -> "-1"

\* seq[i] of Python for a sequence of length n: the 1-based position, or 0 for IndexError.
PyIndex(n, i) ==
  IF 0 <= i /\ i < n THEN i + 1
  ELSE IF i < 0 /\ -n <= i THEN n + i + 1
  ELSE 0

(***************************************************************************)
(* Paths.  A raw path string is modelled by its split on "/": the string   *)
(* "/composition/layers/0" is <<"", "composition", "layers", "0">>.        *)
(***************************************************************************)
NonEmpty(seg) == seg # ""

\* segs = [s for s in path.strip("/").split("/") if s]; drop a leading "composition"
PathSegs(path) ==
  LET segs == SelectSeq(path, NonEmpty)
  IN IF Len(segs) > 0 /\ segs[1] = "composition" THEN Tail(segs) ELSE segs

\* One step of the walk: try node[int(seg)], on ValueError/TypeError node[seg].
\* The result is the child, or ok = FALSE for the KeyError, IndexError or
\* TypeError that ends the walk.  key is the child's place in the node.
NoStep == [ok |-> FALSE]
WalkStep(node, seg) ==
  IF IsIntLiteral(seg)
  THEN CASE node.t = "dict" -> NoStep    \* node[1] on a mapping: KeyError, not caught by the inner try
         [] node.t = "list" ->
              LET k == PyIndex(Len(node.items), IntOf(seg))
              IN IF k = 0 THEN NoStep ELSE [ok |-> TRUE, key |-> k, node |-> node.items[k]]
         [] node.t = "str" ->
              LET k == PyIndex(Len(Chars(node.v)), IntOf(seg))
              IN IF k = 0 THEN NoStep ELSE [ok |-> TRUE, key |-> k, node |-> Str(Chars(node.v)[k])]
         [] OTHER -> NoStep              \* TypeError, then node[seg]: TypeError again
  ELSE CASE node.t = "dict" ->
              IF seg \in DOMAIN node.kv
              THEN [ok |-> TRUE, key |-> seg, node |-> node.kv[seg]]
              ELSE NoStep                \* KeyError
         [] OTHER -> NoStep              \* TypeError

\* for seg in segs: node = node[...]
RECURSIVE Walk(_, _)
Walk(node, segs) ==
  IF segs = <<>> THEN [ok |-> TRUE, node |-> node]
  ELSE LET st == WalkStep(node, Head(segs))
       IN IF st.ok THEN Walk(st.node, Tail(segs)) ELSE NoStep

\* Mutant: the terminal mapping is replaced by {"value": value}, its other
\* fields lost
RECURSIVE SetValueAtDropsFields(_, _, _)
SetValueAtDropsFields(node, segs, value) ==
  IF segs = <<>>
  THEN Dict([k \in {"value"} |-> value])
  ELSE LET st == WalkStep(node, Head(segs))
       IN IF node.t = "dict"
          THEN Dict([node.kv EXCEPT ![st.key] = SetValueAtDropsFields(st.node, Tail(segs), value)])
          ELSE List([node.items EXCEPT ![st.key] = SetValueAtDropsFields(st.node, Tail(segs), value)])

\* node["value"] = value on the mapping the walk ends at (the walk succeeds and
\* ends at a mapping).
RECURSIVE SetValueAt(_, _, _)
SetValueAt(node, segs, value) ==
  IF segs = <<>>
  THEN Dict([k \in DOMAIN node.kv \cup {"value"} |->
               IF k = "value" THEN value ELSE node.kv[k]])
  ELSE LET st == WalkStep(node, Head(segs))
       IN IF node.t = "dict"
          THEN Dict([node.kv EXCEPT ![st.key] = SetValueAt(st.node, Tail(segs), value)])
          ELSE List([node.items EXCEPT ![st.key] = SetValueAt(st.node, Tail(segs), value)])

ApplyValueAtEnd(tree, segs, value) ==
  LET w == Walk(tree, segs)
  IN IF w.ok /\ IsDict(w.node) THEN SetValueAt(tree, segs, value) ELSE tree

\* _apply_incremental_update(path, value): the tree afterwards.
ApplyIncrementalUpdate(tree, path, value) ==
  LET segs == PathSegs(path)
  IN IF segs = <<>> THEN tree ELSE ApplyValueAtEnd(tree, segs, value)

\* The exception one step of the walk raises, "none" when it yields a child.
\* node[int(seg)] raises KeyError on a mapping (its keys are strings) and
\* IndexError past the end of a sequence or string; on a number or null it
\* raises TypeError, the inner handler then tries node[seg]: TypeError again.
\* With a segment int() rejects (ValueError), node[seg] raises KeyError on a
\* mapping without the key and TypeError on anything else.
WalkStepError(node, seg) ==
  IF IsIntLiteral(seg)
  THEN CASE node.t = "dict" -> "KeyError"
         [] node.t = "list" ->
              IF PyIndex(Len(node.items), IntOf(seg)) = 0 THEN "IndexError" ELSE "none"
         [] node.t = "str" ->
              IF PyIndex(Len(Chars(node.v)), IntOf(seg)) = 0 THEN "IndexError" ELSE "none"
         [] OTHER -> "TypeError"
  ELSE CASE node.t = "dict" -> IF seg \in DOMAIN node.kv THEN "none" ELSE "KeyError"
         [] OTHER -> "TypeError"

\* the exception that ends the walk, "none" when the walk reaches its end
RECURSIVE WalkError(_, _)
WalkError(node, segs) ==
  IF segs = <<>> THEN "none"
  ELSE IF WalkStepError(node, Head(segs)) # "none" THEN WalkStepError(node, Head(segs))
  ELSE WalkError(WalkStep(node, Head(segs)).node, Tail(segs))

\* Mutant: the handler of line 161 without IndexError
CaughtByPatchNoIndexError == {"KeyError", "TypeError"}

\* line 161: except (KeyError, IndexError, TypeError)
CaughtByPatch == {"KeyError", "IndexError", "TypeError"}

\* _apply_incremental_update(path, value) leaves by an exception
PatchEscapes(tree, path) ==
  /\ PathSegs(path) # <<>>
  /\ WalkError(tree, PathSegs(path)) \notin CaughtByPatch \cup {"none"}

\* Mutant: the handler of line 281 without IndexError
CaughtByResolveNoIndexError == {"KeyError", "TypeError"}

\* line 281: except (KeyError, IndexError, TypeError)
CaughtByResolve == {"KeyError", "IndexError", "TypeError"}

\* _resolve_path_to_id(path) leaves by an exception (the walk starts even with
\* no segments; node.get("id") on a mapping raises nothing)
ResolveEscapes(tree, path) ==
  WalkError(tree, PathSegs(path)) \notin CaughtByResolve \cup {"none"}

\* _resolve_path_to_id(path): the id node, or Null for None.
ResolvePathToId(tree, path) ==
  LET w == Walk(tree, PathSegs(path))
  IN IF w.ok /\ IsDict(w.node) /\ "id" \in DOMAIN w.node.kv THEN w.node.kv["id"] ELSE Null

(***************************************************************************)
(* The inputs of the runs: the frames Resolume sends and the paths callers *)
(* use.                                                                    *)
(***************************************************************************)
ParamLeaf(id, v) == Dict([k \in {"id", "value"} |-> IF k = "id" THEN Num(id) ELSE v])

\* {"layers": [{"bypassed": {"id": 7, "value": v}}]}
Composition(v) ==
  Dict([k \in {"layers"} |-> List(<<Dict([k2 \in {"bypassed"} |-> ParamLeaf(7, v)])>>)])

PathA == <<"", "composition", "layers", "0", "bypassed">>  \* "/composition/layers/0/bypassed"
PathA2 == <<"", "layers", "0", "bypassed">>                \* "/layers/0/bypassed": same node
PathB == <<"", "composition", "layers", "1", "bypassed">>  \* no such layer in Composition

Paths == {PathA, PathA2, PathB}
Values == {Str("y")}
FullFrames == {Composition(Str("x"))}
SubPaths == {PathA, PathB}
CallPaths == {PathA, PathB}

(***************************************************************************)
(* Sockets, listener tasks, reconnect tasks, futures.                      *)
(***************************************************************************)
UnusedSockets == {s \in Sockets : sock[s].status = "unused"}
NewSocket == CHOOSE s \in UnusedSockets : \A o \in UnusedSockets : s <= o

Listening(s) == sock[s].status = "open" /\ sock[s].listener = "running"

SupActive(r) == sup[r].pc \in {"sleeping", "opening", "waiting", "ready"}

NoSup == [pc |-> "none", attempt |-> 0]

\* dict operations on _pending_ack
Put(d, k, v) == [x \in DOMAIN d \cup {k} |-> IF x = k THEN v ELSE d[x]]
Pop(d, k) == [x \in DOMAIN d \ {k} |-> d[x]]
Futures(d) == {d[k] : k \in DOMAIN d}

\* fut.set_result(value) / fut.set_exception(e) / fut.cancel() on the futures in fs
SetResult(f, fs, value) ==
  [c \in Calls |-> IF c \in fs THEN [st |-> "result", val |-> value] ELSE f[c]]
SetException(f, fs) ==
  [c \in Calls |-> IF c \in fs THEN [st |-> "exception", val |-> Null] ELSE f[c]]
Cancel(f, fs) ==
  [c \in Calls |-> IF c \in fs /\ f[c].st = "pending"
                   THEN [st |-> "cancelled", val |-> Null] ELSE f[c]]
NotDone(f, c) == f[c].st = "pending"

(***************************************************************************)
(* send_command                                                            *)
(***************************************************************************)
\* Mutant: `if body_or_value:` in place of `is not None`, so that a payload
\* of 0 or False is left out
PayloadIfTruthy(action, path, body_or_value) ==
  IF action \in {"post", "remove"}
  THEN IF body_or_value \notin {Null, Num(0), Bool(FALSE)}
       THEN [action |-> action, path |-> path, body |-> body_or_value]
       ELSE [action |-> action, path |-> path]
  ELSE IF body_or_value \notin {Null, Num(0), Bool(FALSE)}
       THEN [action |-> action, parameter |-> path, value |-> body_or_value]
       ELSE [action |-> action, parameter |-> path]

\* The frame send_command builds; body_or_value = Null is Python's None.
Payload(action, path, body_or_value) ==
  IF action \in {"post", "remove"}
  THEN IF body_or_value # Null
       THEN [action |-> action, path |-> path, body |-> body_or_value]
       ELSE [action |-> action, path |-> path]
  ELSE IF body_or_value # Null
       THEN [action |-> action, parameter |-> path, value |-> body_or_value]
       ELSE [action |-> action, parameter |-> path]

\* What one send_command call does with flag conn and socket w:
\*   "dry" (logged only), "noop" (not connected), "sent", or "raise"
\*   (ws.send on a closed socket raises ConnectionClosed).
SendResult(conn, w) ==
  IF dry_run THEN "dry"
  ELSE IF ~conn \/ w = NoSocket THEN "noop"
  ELSE IF sock[w].status = "open" THEN "sent"
  ELSE "raise"

\* The wire after send_command(action, path, body_or_value)
SendCommand(wr, conn, w, action, path, body_or_value) ==
  IF SendResult(conn, w) = "sent"
  THEN [wr EXCEPT ![w] = Append(@, Payload(action, path, body_or_value))]
  ELSE wr

\* for path in self._subscriptions: await self.send_command("subscribe", path)
\* in the order `order` the set happens to iterate in.
Orders(S) ==
  {o \in [1..Cardinality(S) -> S] : \A i, j \in 1..Cardinality(S) : o[i] = o[j] => i = j}

RECURSIVE Replay(_, _, _, _)
Replay(wr, conn, w, order) ==
  IF order = <<>> THEN wr
  ELSE Replay(SendCommand(wr, conn, w, "subscribe", Head(order), Null), conn, w, Tail(order))

\* The replay raises when there is a path to send and the send raises.
ReplayRaises(conn, w) == subscriptions # {} /\ SendResult(conn, w) = "raise"

(***************************************************************************)
(* The backoff delay of line 181, in ticks of 1/JitterSteps second:        *)
(* random.uniform(0, 1) is jitter/JitterSteps for a jitter in              *)
(* 0..JitterSteps-1.  The reconnect actions leave the delay they sleep for *)
(* out: no step of the client depends on how long a loop has slept.        *)
(***************************************************************************)
JitterSteps == 10          \* values of random.uniform(0, 1) told apart
DelayAttempts == 10        \* attempt numbers whose delay is computed
DelayCap == 60             \* the 60 of min(2 ** attempt, 60)

NoDelay == [attempt |-> 0, ticks |-> 0]

\* the tool layer before its first get_client call: _client = None
NoTool == [client |-> 0, calls |-> 0]

\* no bootstrap_deck call has been made
NoBoot ==
  [pc |-> "idle", call |-> 0, name |-> Null, clips |-> <<>>, grid_width |-> 0,
   before |-> {}, deck_index |-> 0, started |-> 0, inflight |-> {}, raised |-> FALSE]

\* Mutant: the delay without its cap
BackoffDelayUncapped(attempt, jitter) == (2 ^ attempt) * JitterSteps + jitter

\* delay = min(2 ** attempt, 60) + random.uniform(0, 1)
BackoffDelay(attempt, jitter) ==
  (IF 2 ^ attempt < DelayCap THEN 2 ^ attempt ELSE DelayCap) * JitterSteps + jitter

(***************************************************************************)
(* Init: the client after __init__                                         *)
(***************************************************************************)
Init ==
  /\ dry_run \in BOOLEAN
  /\ ws = NoSocket
  /\ state = Dict(<<>>)
  /\ connected = FALSE
  /\ state_ready = FALSE
  /\ pending_ack = <<>>
  /\ listen_task = NoTask
  /\ reconnect_task = NoTask
  /\ subscriptions = {}
  /\ sock = [s \in Sockets |-> [status |-> "unused", listener |-> "none"]]
  /\ wire = [s \in Sockets |-> <<>>]
  /\ sup = [s \in Sockets |-> NoSup]
  /\ fut = [c \in Calls |-> [st |-> "none", val |-> Null]]
  /\ call = [c \in Calls |-> [pc |-> "idle", path |-> <<>>]]
  /\ ctl = [pc |-> "idle", last |-> "none", sock |-> NoSocket, full |-> FALSE]
  /\ nsend = 0
  /\ delay = NoDelay
  /\ boot = NoBoot
  /\ tool = NoTool

(***************************************************************************)
(* connect / _do_connect                                                   *)
(***************************************************************************)
\* _do_connect once websockets.connect has returned socket s:
\* self.ws = s; self._listen_task = create_task(self._listen())
DoConnect(s) ==
  /\ ws' = s
  /\ listen_task' = s
  /\ sock' = [sock EXCEPT ![s] = [status |-> "open", listener |-> "running"]]

\* connect() in dry-run mode (lines 45-49)
ConnectDryRun ==
  /\ ctl.pc = "idle"
  /\ dry_run
  /\ connected' = TRUE
  /\ state_ready' = TRUE
  /\ ctl' = [pc |-> "idle", last |-> "connect", sock |-> NoSocket, full |-> FALSE]
  /\ UNCHANGED <<tool, boot, delay, dry_run, ws, state, pending_ack, listen_task, reconnect_task,
                 subscriptions, sock, wire, sup, fut, call, nsend>>

\* connect() up to `await websockets.connect(...)` (lines 51-54, 76)
ConnectBegin ==
  /\ ctl.pc = "idle"
  /\ ~dry_run
  /\ state_ready' = FALSE
  /\ ctl' = [pc |-> "c_opening", last |-> "connect", sock |-> NoSocket, full |-> FALSE]
  /\ UNCHANGED <<tool, boot, delay, dry_run, ws, state, connected, pending_ack, listen_task, reconnect_task,
                 subscriptions, sock, wire, sup, fut, call, nsend>>

\* websockets.connect returns: the socket is open and the listener is started
\* (lines 76-78), connect goes on to wait for _state_ready (line 62)
ConnectOpen ==
  /\ ctl.pc = "c_opening"
  /\ UnusedSockets # {}
  /\ DoConnect(NewSocket)
  /\ ctl' = [ctl EXCEPT !.pc = IF state_ready THEN "c_ready" ELSE "c_waiting",
                        !.sock = NewSocket, !.full = FALSE]
  /\ UNCHANGED <<tool, boot, delay, dry_run, state, connected, state_ready, pending_ack, reconnect_task,
                 subscriptions, wire, sup, fut, call, nsend>>

\* websockets.connect raises: connect returns False (lines 55-57)
ConnectOpenFails ==
  /\ ctl.pc = "c_opening"
  /\ ctl' = [pc |-> "idle", last |-> "connect_failed", sock |-> NoSocket, full |-> FALSE]
  /\ UNCHANGED <<tool, boot, delay, dry_run, ws, state, connected, state_ready, pending_ack, listen_task,
                 reconnect_task, subscriptions, sock, wire, sup, fut, call, nsend>>

\* the wait for _state_ready has returned: replay the subscriptions, set
\* _connected (lines 67-72).  A send that raises leaves connect() by that
\* exception.
ConnectReady ==
  /\ ctl.pc = "c_ready"
  /\ IF ReplayRaises(connected, ws)
     THEN /\ ctl' = [pc |-> "idle", last |-> "connect_raised", sock |-> NoSocket, full |-> FALSE]
          /\ UNCHANGED <<wire, connected>>
     ELSE /\ \E order \in Orders(subscriptions) :
               wire' = Replay(wire, connected, ws, order)
          /\ connected' = TRUE
          /\ ctl' = [pc |-> "idle", last |-> "connect", sock |-> NoSocket, full |-> FALSE]
  /\ UNCHANGED <<tool, boot, delay, dry_run, ws, state, state_ready, pending_ack, listen_task, reconnect_task,
                 subscriptions, sock, sup, fut, call, nsend>>

\* the wait for _state_ready times out: connect returns False (lines 63-65)
ConnectTimeout ==
  /\ ctl.pc = "c_waiting"
  /\ ctl' = [pc |-> "idle", last |-> "connect_failed", sock |-> NoSocket, full |-> FALSE]
  /\ UNCHANGED <<tool, boot, delay, dry_run, ws, state, connected, state_ready, pending_ack, listen_task,
                 reconnect_task, subscriptions, sock, wire, sup, fut, call, nsend>>

(***************************************************************************)
(* disconnect, as a function of the fields it reads and writes             *)
(***************************************************************************)
Client ==
  [connected |-> connected, ws |-> ws, state_ready |-> state_ready,
   pending_ack |-> pending_ack, listen_task |-> listen_task,
   reconnect_task |-> reconnect_task, subscriptions |-> subscriptions,
   sock |-> sock, sup |-> sup, fut |-> fut, raised |-> FALSE]

\* task.cancel() on a reconnect task / a listener task: nothing on a finished one
CancelSup(sp, r) ==
  IF sp[r].pc \in {"sleeping", "opening", "waiting", "ready"}
  THEN [sp EXCEPT ![r].pc = "cancelled"] ELSE sp
CancelListener(sk, s) ==
  IF sk[s].listener = "running" THEN [sk EXCEPT ![s].listener = "cancelled"] ELSE sk

\* Mutant: the registry is cleared but the futures are not cancelled
DisconnectSyncNoCancel(c) ==
  [c EXCEPT
     !.connected = FALSE,
     !.sup = IF c.reconnect_task # NoTask THEN CancelSup(@, c.reconnect_task) ELSE @,
     !.sock = IF c.listen_task # NoTask THEN CancelListener(@, c.listen_task) ELSE @,
     !.pending_ack = <<>>]

\* Mutant: disconnect also forgets the subscriptions
DisconnectSyncForgetsSubscriptions(c) ==
  [c EXCEPT
     !.connected = FALSE,
     !.sup = IF c.reconnect_task # NoTask THEN CancelSup(@, c.reconnect_task) ELSE @,
     !.sock = IF c.listen_task # NoTask THEN CancelListener(@, c.listen_task) ELSE @,
     !.fut = Cancel(@, Futures(c.pending_ack)),
     !.pending_ack = <<>>,
     !.subscriptions = {}]

\* lines 81-88: clear the flag, cancel the two held tasks, cancel and clear the ACKs
DisconnectSync(c) ==
  [c EXCEPT
     !.connected = FALSE,
     !.sup = IF c.reconnect_task # NoTask THEN CancelSup(@, c.reconnect_task) ELSE @,
     !.sock = IF c.listen_task # NoTask THEN CancelListener(@, c.listen_task) ELSE @,
     !.fut = Cancel(@, Futures(c.pending_ack)),
     !.pending_ack = <<>>]

\* Mutant: no `if self.ws` guard, None.close() raises AttributeError
DisconnectCloseBeginUnguarded(c) ==
  IF c.ws # NoSocket THEN [c EXCEPT !.sock[c.ws].status = "closed"] ELSE [c EXCEPT !.raised = TRUE]

\* line 90 up to the await: if self.ws: self.ws.close() starts the closing handshake
DisconnectCloseBegin(c) ==
  IF c.ws # NoSocket THEN [c EXCEPT !.sock[c.ws].status = "closed"] ELSE c

\* lines 91-92 (line 91 only when line 89 found a socket)
DisconnectCloseEnd(c, had_ws) ==
  [c EXCEPT !.ws = IF had_ws THEN NoSocket ELSE @, !.state_ready = FALSE]

\* disconnect() run with no other task in between
Disconnect(c) ==
  DisconnectCloseEnd(DisconnectCloseBegin(DisconnectSync(c)), c.ws # NoSocket)

SetClient(c) ==
  /\ connected' = c.connected
  /\ ws' = c.ws
  /\ state_ready' = c.state_ready
  /\ pending_ack' = c.pending_ack
  /\ listen_task' = c.listen_task
  /\ reconnect_task' = c.reconnect_task
  /\ subscriptions' = c.subscriptions
  /\ sock' = c.sock
  /\ sup' = c.sup
  /\ fut' = c.fut

\* disconnect() up to `await self.ws.close()`; with no socket, the whole call
DisconnectBegin ==
  /\ ctl.pc = "idle"
  /\ IF ws # NoSocket
     THEN /\ SetClient(DisconnectCloseBegin(DisconnectSync(Client)))
          /\ ctl' = [pc |-> "d_closing", last |-> "disconnect", sock |-> NoSocket, full |-> FALSE]
     ELSE /\ SetClient(Disconnect(Client))
          /\ ctl' = [pc |-> "idle", last |-> "disconnect", sock |-> NoSocket, full |-> FALSE]
  /\ UNCHANGED <<tool, boot, delay, dry_run, state, wire, call, nsend>>

\* ws.close() returns: self.ws = None; self._state_ready.clear()
DisconnectEnd ==
  /\ ctl.pc = "d_closing"
  /\ SetClient(DisconnectCloseEnd(Client, TRUE))
  /\ ctl' = [ctl EXCEPT !.pc = "idle"]
  /\ UNCHANGED <<tool, boot, delay, dry_run, state, wire, call, nsend>>

(***************************************************************************)
(* _listen                                                                 *)
(***************************************************************************)
\* Mutant: resolves only the ACKs whose path exists in the new tree
ResolveAcksFuturesOnlyKnownPaths(f, acks) ==
  SetResult(f, {c \in Futures(acks) :
                  /\ NotDone(f, c)
                  /\ \E p \in DOMAIN acks : acks[p] = c /\ Walk(state', PathSegs(p)).ok}, Null)

\* _resolve_acks_from_state: the futures afterwards / the registry afterwards
ResolveAcksFutures(f, acks) ==
  SetResult(f, {c \in Futures(acks) : NotDone(f, c)}, Null)
ResolveAcksRegistry(acks) == <<>>

\* self._state_ready.set(): the tasks waiting for the event are woken
WokenCtl(c) == IF c.pc = "c_waiting" THEN [c EXCEPT !.pc = "c_ready"] ELSE c
\* the frame is one of the socket the running connect() has opened
FrameSeen(c, s) == IF c.sock = s THEN [c EXCEPT !.full = TRUE] ELSE c
WokenSup(sp) ==
  [r \in Sockets |-> IF sp[r].pc = "waiting" THEN [sp[r] EXCEPT !.pc = "ready"] ELSE sp[r]]

\* Mutant: only the first full-state frame sets the tree, later ones leave the
\* patched tree in place
ListenFullKeepsTree(s, tree) ==
  /\ Listening(s)
  /\ state' = IF state = Dict(<<>>) THEN tree ELSE state
  /\ state_ready' = TRUE
  /\ ctl' = FrameSeen(WokenCtl(ctl), s)
  /\ sup' = WokenSup(sup)
  /\ fut' = ResolveAcksFutures(fut, pending_ack)
  /\ pending_ack' = ResolveAcksRegistry(pending_ack)
  /\ UNCHANGED <<tool, boot, delay, dry_run, ws, connected, listen_task, reconnect_task, subscriptions,
                 sock, wire, call, nsend>>

\* a full-state frame (lines 105-112)
ListenFull(s, tree) ==
  /\ Listening(s)
  /\ state' = tree
  /\ state_ready' = TRUE
  /\ ctl' = FrameSeen(WokenCtl(ctl), s)
  /\ sup' = WokenSup(sup)
  /\ fut' = ResolveAcksFutures(fut, pending_ack)
  /\ pending_ack' = ResolveAcksRegistry(pending_ack)
  /\ UNCHANGED <<tool, boot, delay, dry_run, ws, connected, listen_task, reconnect_task, subscriptions,
                 sock, wire, call, nsend>>

\* Mutant: matches the ACK by the normalized path instead of the exact string
AckFuturesNormalized(f, acks, path, value) ==
  SetResult(f, {acks[p] : p \in {q \in DOMAIN acks :
                                   PathSegs(q) = PathSegs(path) /\ NotDone(f, acks[q])}}, value)

\* Mutant: the frame's ACK empties the registry
AckRegistryCleared(acks, path) == <<>>

\* Mutant: the frame removes every entry whose path normalizes to the frame's
AckRegistryNormalized(acks, path) ==
  [q \in {x \in DOMAIN acks : PathSegs(x) # PathSegs(path)} |-> acks[q]]

\* lines 120-123: the ACK of an incremental frame
AckFutures(f, acks, path, value) ==
  IF path \in DOMAIN acks /\ NotDone(f, acks[path])
  THEN SetResult(f, {acks[path]}, value) ELSE f
AckRegistry(acks, path) == Pop(acks, path)

\* Mutant: the waiter gets the frame's value only when the walk ended at a
\* mapping and patched it; otherwise its entry is dropped unresolved
ListenIncrementalAckAfterPatch(s, path, value) ==
  /\ Listening(s)
  /\ IF PatchEscapes(state, path)
     THEN /\ sock' = [sock EXCEPT ![s].listener = "failed"]
          /\ UNCHANGED <<state, fut, pending_ack>>
     ELSE /\ state' = ApplyIncrementalUpdate(state, path, value)
          /\ IF PathSegs(path) # <<>> /\ Walk(state, PathSegs(path)).ok
                /\ IsDict(Walk(state, PathSegs(path)).node)
             THEN /\ fut' = AckFutures(fut, pending_ack, path, value)
                  /\ pending_ack' = AckRegistry(pending_ack, path)
             ELSE /\ fut' = fut
                  /\ pending_ack' = AckRegistry(pending_ack, path)
          /\ sock' = sock
  /\ UNCHANGED <<tool, boot, delay, dry_run, ws, connected, state_ready, listen_task, reconnect_task,
                 subscriptions, wire, sup, call, ctl, nsend>>

\* an incremental frame (lines 114-123).  An exception that leaves
\* _apply_incremental_update leaves _listen too (it catches ConnectionClosed
\* only): the listener task ends, the socket stays open.
ListenIncremental(s, path, value) ==
  /\ Listening(s)
  /\ IF PatchEscapes(state, path)
     THEN /\ sock' = [sock EXCEPT ![s].listener = "failed"]
          /\ UNCHANGED <<state, fut, pending_ack>>
     ELSE /\ state' = ApplyIncrementalUpdate(state, path, value)
          /\ fut' = AckFutures(fut, pending_ack, path, value)
          /\ pending_ack' = AckRegistry(pending_ack, path)
          /\ sock' = sock
  /\ UNCHANGED <<tool, boot, delay, dry_run, ws, connected, state_ready, listen_task, reconnect_task,
                 subscriptions, wire, sup, call, ctl, nsend>>

\* The task _reconnect_loop() as create_task leaves it: about to sleep before
\* attempt 0, or finished at once when the budget is 0.
StartedSup ==
  [pc |-> IF max_reconnect_attempts > 0 THEN "sleeping" ELSE "exhausted", attempt |-> 0]

\* Mutant: the handler clears the registry without failing the futures
ClosedFuturesForgotten(f, acks) == f

\* lines 126-135: what the ConnectionClosed handler does to the ACK futures
ClosedFutures(f, acks) ==
  SetException(f, {c \in Futures(acks) : NotDone(f, c)})

\* the socket closes and the listener's read raises ConnectionClosed (lines 125-135)
ListenClosed(s) ==
  /\ Listening(s)
  /\ connected' = FALSE
  /\ fut' = ClosedFutures(fut, pending_ack)
  /\ pending_ack' = <<>>
  /\ sock' = [sock EXCEPT ![s] = [status |-> "closed", listener |-> "ended"]]
  /\ reconnect_task' = s
  /\ sup' = [sup EXCEPT ![s] = StartedSup]
  /\ UNCHANGED <<tool, boot, delay, dry_run, ws, state, state_ready, listen_task, subscriptions,
                 wire, call, ctl, nsend>>

(***************************************************************************)
(* _reconnect_loop                                                         *)
(***************************************************************************)
\* the attempt failed (line 193-194): the next turn of the for loop, or line 196
AttemptFailed(r) ==
  IF sup[r].attempt + 1 < max_reconnect_attempts
  THEN [sup EXCEPT ![r].pc = "sleeping", ![r].attempt = @ + 1]
  ELSE [sup EXCEPT ![r].pc = "exhausted"]

\* asyncio.sleep(delay) returns: clear _state_ready, call websockets.connect (lines 183-186, 76)
ReconnectWake(r) ==
  /\ sup[r].pc = "sleeping"
  /\ state_ready' = FALSE
  /\ sup' = [sup EXCEPT ![r].pc = "opening"]
  /\ UNCHANGED <<tool, boot, delay, dry_run, ws, state, connected, pending_ack, listen_task, reconnect_task,
                 subscriptions, sock, wire, fut, call, ctl, nsend>>

\* websockets.connect returns (lines 76-78); the loop waits for _state_ready (line 187)
ReconnectOpen(r) ==
  /\ sup[r].pc = "opening"
  /\ UnusedSockets # {}
  /\ DoConnect(NewSocket)
  /\ sup' = [sup EXCEPT ![r].pc = IF state_ready THEN "ready" ELSE "waiting"]
  /\ UNCHANGED <<tool, boot, delay, dry_run, state, connected, state_ready, pending_ack, reconnect_task,
                 subscriptions, wire, fut, call, ctl, nsend>>

\* websockets.connect raises
ReconnectOpenFails(r) ==
  /\ sup[r].pc = "opening"
  /\ sup' = AttemptFailed(r)
  /\ UNCHANGED <<tool, boot, delay, dry_run, ws, state, connected, state_ready, pending_ack, listen_task,
                 reconnect_task, subscriptions, sock, wire, fut, call, ctl, nsend>>

\* Mutant: line 192 without its `return`, the loop goes on to its next turn
ReconnectReadyNoReturn(r) ==
  /\ sup[r].pc = "ready"
  /\ \E order \in Orders(subscriptions) : wire' = Replay(wire, connected, ws, order)
  /\ connected' = TRUE
  /\ sup' = AttemptFailed(r)
  /\ UNCHANGED <<tool, boot, delay, dry_run, ws, state, state_ready, pending_ack, listen_task, reconnect_task,
                 subscriptions, sock, fut, call, ctl, nsend>>

\* the wait for _state_ready has returned: replay the subscriptions, set
\* _connected, return (lines 188-192).  A send that raises fails the attempt.
ReconnectReady(r) ==
  /\ sup[r].pc = "ready"
  /\ IF ReplayRaises(connected, ws)
     THEN /\ sup' = AttemptFailed(r)
          /\ UNCHANGED <<wire, connected>>
     ELSE /\ \E order \in Orders(subscriptions) :
               wire' = Replay(wire, connected, ws, order)
          /\ connected' = TRUE
          /\ sup' = [sup EXCEPT ![r].pc = "done"]
  /\ UNCHANGED <<tool, boot, delay, dry_run, ws, state, state_ready, pending_ack, listen_task, reconnect_task,
                 subscriptions, sock, fut, call, ctl, nsend>>

\* the wait for _state_ready times out (asyncio.TimeoutError, caught at line 193)
ReconnectTimeout(r) ==
  /\ sup[r].pc = "waiting"
  /\ sup' = AttemptFailed(r)
  /\ UNCHANGED <<tool, boot, delay, dry_run, ws, state, connected, state_ready, pending_ack, listen_task,
                 reconnect_task, subscriptions, sock, wire, fut, call, ctl, nsend>>

(***************************************************************************)
(* send_and_wait                                                           *)
(***************************************************************************)
FreeCall(c) == call[c].pc = "idle" /\ \A d \in Calls : d < c => call[d].pc # "idle"

\* lines 249-254 up to the wait: register the future, send the command.
\* A send that raises ConnectionClosed leaves the call by that exception
\* (only asyncio.TimeoutError is caught), its entry still registered.
SendAndWait(c, path, value) ==
  /\ FreeCall(c)
  /\ fut' = [fut EXCEPT ![c] = [st |-> "pending", val |-> Null]]
  /\ pending_ack' = Put(pending_ack, path, c)
  /\ wire' = SendCommand(wire, connected, ws, "set", path, value)
  /\ call' = [call EXCEPT ![c] =
                [pc |-> IF SendResult(connected, ws) = "raise" THEN "send_raised" ELSE "waiting",
                 path |-> path]]
  /\ UNCHANGED <<tool, boot, delay, dry_run, ws, state, connected, state_ready, listen_task, reconnect_task,
                 subscriptions, sock, sup, ctl, nsend>>

\* the timeout of asyncio.wait_for fires while the future is pending: wait_for
\* cancels the future; the call resumes later
WaitTimerFires(c) ==
  /\ call[c].pc = "waiting"
  /\ NotDone(fut, c)
  /\ fut' = Cancel(fut, {c})
  /\ call' = [call EXCEPT ![c].pc = "timing_out"]
  /\ UNCHANGED <<tool, boot, delay, dry_run, ws, state, connected, state_ready, pending_ack, listen_task,
                 reconnect_task, subscriptions, sock, wire, sup, ctl, nsend>>

\* lines 255-257: self._pending_ack.pop(path, None)
TimeoutRegistry(acks, path) == Pop(acks, path)

\* the call resumes with asyncio.TimeoutError (lines 255-257)
WaitTimedOut(c) ==
  /\ call[c].pc = "timing_out"
  /\ pending_ack' = TimeoutRegistry(pending_ack, call[c].path)
  /\ call' = [call EXCEPT ![c].pc = "timeout"]
  /\ UNCHANGED <<tool, boot, delay, dry_run, ws, state, connected, state_ready, listen_task, reconnect_task,
                 subscriptions, sock, wire, sup, fut, ctl, nsend>>

\* How a send_and_wait call has ended, or "running"
Outcome(c) ==
  CASE call[c].pc = "idle" -> "running"
    [] call[c].pc = "send_raised" -> "connection_closed"
    [] call[c].pc \in {"timing_out", "timeout"} -> "timeout"
    [] call[c].pc = "waiting" /\ fut[c].st = "pending" -> "running"
    [] call[c].pc = "waiting" /\ fut[c].st = "result" -> "returned"
    [] call[c].pc = "waiting" /\ fut[c].st = "exception" -> "connection_error"
    [] call[c].pc = "waiting" /\ fut[c].st = "cancelled" -> "cancelled"

(***************************************************************************)
(* subscribe / unsubscribe                                                 *)
(***************************************************************************)
\* `if param_id`
Truthy(v) ==
  CASE v.t = "null" -> FALSE
    [] v.t = "num" -> v.v # 0
    [] v.t = "bool" -> v.v
    [] v.t = "str" -> v.v # ""
    [] v.t = "list" -> v.items # <<>>
    [] v.t = "dict" -> DOMAIN v.kv # {}

\* ws_path = f"/parameter/by-id/{param_id}" with no `else path`
WsPathNoFallback(tree, path) ==
  LET param_id == ResolvePathToId(tree, path)
  IN <<"", "parameter", "by-id", IF param_id.t = "num" THEN IntStr(param_id.v) ELSE "None">>

\* ws_path = f"/parameter/by-id/{param_id}" if param_id else path  (ids are numbers)
WsPath(tree, path) ==
  LET param_id == ResolvePathToId(tree, path)
  IN IF Truthy(param_id) THEN <<"", "parameter", "by-id", IntStr(param_id.v)>> ELSE path

\* A subscribe or unsubscribe whose send raises leaves by ConnectionClosed
\* after the set was changed.
Subscribe(path) ==
  /\ nsend < MaxSubOps
  /\ nsend' = nsend + 1
  /\ subscriptions' = subscriptions \cup {WsPath(state, path)}
  /\ wire' = SendCommand(wire, connected, ws, "subscribe", WsPath(state, path), Null)
  /\ UNCHANGED <<tool, boot, delay, dry_run, ws, state, connected, state_ready, pending_ack, listen_task,
                 reconnect_task, sock, sup, fut, call, ctl>>

Unsubscribe(path) ==
  /\ nsend < MaxSubOps
  /\ nsend' = nsend + 1
  /\ subscriptions' = subscriptions \ {WsPath(state, path)}
  /\ wire' = SendCommand(wire, connected, ws, "unsubscribe", WsPath(state, path), Null)
  /\ UNCHANGED <<tool, boot, delay, dry_run, ws, state, connected, state_ready, pending_ack, listen_task,
                 reconnect_task, sock, sup, fut, call, ctl>>

(***************************************************************************)
(* bootstrap_deck (lines 302-354)                                          *)
(***************************************************************************)
BootSlots == 5             \* asyncio.Semaphore(5)

DecksAddPath == <<"", "composition", "decks", "add">>
DeckNamePath(deck_index) == <<"", "composition", "decks", IntStr(deck_index), "name">>
ClipOpenPath(layer, col) ==
  <<"", "composition", "layers", IntStr(layer), "clips", IntStr(col), "open">>

\* quote(str(path), safe="/:") for the clip files of the runs
Quote(path) ==
  CASE path = "/clips/a.mov" -> "/clips/a.mov"
    [] path = "/clips/b c.mov" -> "/clips/b%20c.mov"

\* "file://" + quote(...)
FileUrl(path) == Str(<<"file://", Quote(path)>>)

\* self.state.get("decks", [])
Decks(tree) == IF "decks" \in DOMAIN tree.kv THEN tree.kv["decks"].items ELSE <<>>

\* d.get("id")
DeckId(d) == IF "id" \in DOMAIN d.kv THEN d.kv["id"] ELSE Null

\* {d.get("id") for d in self.state.get("decks", [])}
DeckIds(tree) == {DeckId(Decks(tree)[k]) : k \in DOMAIN Decks(tree)}

\* lines 318-329: the new deck by the diff of ids, else the last deck, else
\* {}; its 1-based position (list.index: the first equal element), else 1
DeckIndex(tree, before) ==
  LET decks_after == Decks(tree)
      fresh == {k \in DOMAIN decks_after : DeckId(decks_after[k]) \notin before}
      new_deck == IF fresh # {} THEN decks_after[CHOOSE k \in fresh : \A j \in fresh : k <= j]
                  ELSE IF decks_after # <<>> THEN decks_after[Len(decks_after)]
                  ELSE Dict(<<>>)
      same == {k \in DOMAIN decks_after : decks_after[k] = new_deck}
  IN IF same # {} THEN CHOOSE k \in same : \A j \in same : k <= j ELSE 1

\* send_and_wait(action, path, body_or_value) of the bootstrap up to its wait,
\* on the call slot c; `then` is the position the bootstrap waits at
BootSendAndWait(c, action, path, body_or_value, b) ==
  /\ FreeCall(c)
  /\ fut' = [fut EXCEPT ![c] = [st |-> "pending", val |-> Null]]
  /\ pending_ack' = Put(pending_ack, path, c)
  /\ wire' = SendCommand(wire, connected, ws, action, path, body_or_value)
  /\ call' = [call EXCEPT ![c] =
                [pc |-> IF SendResult(connected, ws) = "raise" THEN "send_raised" ELSE "waiting",
                 path |-> path]]
  /\ boot' = [b EXCEPT !.call = c,
                        !.pc = IF SendResult(connected, ws) = "raise" THEN "failed" ELSE b.pc]
  /\ UNCHANGED <<tool, delay, dry_run, ws, state, connected, state_ready, listen_task, reconnect_task,
                 subscriptions, sock, sup, ctl, nsend>>

\* bootstrap_deck(name, clips_paths, grid_width) up to the wait for the deck
\* to be added (lines 310-316)
BootstrapBegin(c, name, clips_paths, grid_width) ==
  /\ boot.pc = "idle"
  /\ BootSendAndWait(c, "post", DecksAddPath, Null,
                     [boot EXCEPT !.pc = "adding", !.name = name, !.clips = clips_paths,
                                  !.grid_width = grid_width, !.before = DeckIds(state)])

\* the deck-add send_and_wait has returned: find the deck, send the rename
\* and wait for it (lines 318-336)
BootstrapRename(c) ==
  /\ boot.pc = "adding"
  /\ Outcome(boot.call) = "returned"
  /\ BootSendAndWait(c, "set", DeckNamePath(DeckIndex(state, boot.before)), boot.name,
                     [boot EXCEPT !.pc = "renaming",
                                  !.deck_index = DeckIndex(state, boot.before)])

\* a send_and_wait of the bootstrap has raised (timeout, connection lost,
\* cancelled): bootstrap_deck leaves by that exception
BootstrapFails ==
  /\ boot.pc \in {"adding", "renaming"}
  /\ \/ call[boot.call].pc = "timeout"
     \/ Outcome(boot.call) \in {"connection_error", "cancelled"}
  /\ boot' = [boot EXCEPT !.pc = "failed"]
  /\ UNCHANGED <<tool, delay, dry_run, ws, state, connected, state_ready, pending_ack, listen_task,
                 reconnect_task, subscriptions, sock, wire, sup, fut, call, ctl, nsend>>

\* Mutant: the clips are loaded without waiting for the rename to be confirmed
BootstrapGatherEarly ==
  /\ boot.pc = "renaming"
  /\ boot' = [boot EXCEPT !.pc = IF boot.clips = <<>> THEN "done" ELSE "loading"]
  /\ UNCHANGED <<tool, delay, dry_run, ws, state, connected, state_ready, pending_ack, listen_task,
                 reconnect_task, subscriptions, sock, wire, sup, fut, call, ctl, nsend>>

\* the rename send_and_wait has returned: asyncio.gather makes the tasks
\* load_clip(i, p) (lines 338-352)
BootstrapGather ==
  /\ boot.pc = "renaming"
  /\ Outcome(boot.call) = "returned"
  /\ boot' = [boot EXCEPT !.pc = IF boot.clips = <<>> THEN "done" ELSE "loading"]
  /\ UNCHANGED <<tool, delay, dry_run, ws, state, connected, state_ready, pending_ack, listen_task,
                 reconnect_task, subscriptions, sock, wire, sup, fut, call, ctl, nsend>>

\* the tasks of gather run while bootstrap_deck waits for them, and on after
\* one of them has raised
ClipTasksRun == boot.pc = "loading" \/ (boot.pc = "failed" /\ boot.raised)

\* load_clip(i, path) takes a slot of the semaphore (the tasks start and are
\* woken in the order of the list) and calls send_command, which writes the
\* frame; the await of ws.send either returns at once or is left in flight
\* (suspend).  A send that is not written (dry run, not connected) returns at
\* once; one that raises ends the task, and gather passes the exception on.
LoadClipSend(i, suspend) ==
  /\ ClipTasksRun
  /\ i = boot.started /\ i < Len(boot.clips)
  /\ Cardinality(boot.inflight) < BootSlots
  /\ wire' = SendCommand(wire, connected, ws, "post",
                         ClipOpenPath((i \div boot.grid_width) + 1, (i % boot.grid_width) + 1),
                         FileUrl(boot.clips[i + 1]))
  /\ boot' = [boot EXCEPT
                !.started = i + 1,
                !.inflight = IF suspend /\ SendResult(connected, ws) = "sent"
                             THEN @ \cup {i} ELSE @,
                !.raised = @ \/ SendResult(connected, ws) = "raise"]
  /\ UNCHANGED <<tool, delay, dry_run, ws, state, connected, state_ready, pending_ack, listen_task,
                 reconnect_task, subscriptions, sock, sup, fut, call, ctl, nsend>>

\* the ws.send of load_clip(i) returns, or raises ConnectionClosed when the
\* socket was closed meanwhile; the slot is released
LoadClipDone(i) ==
  /\ ClipTasksRun
  /\ i \in boot.inflight
  /\ boot' = [boot EXCEPT !.inflight = @ \ {i},
                          !.raised = @ \/ (ws # NoSocket /\ sock[ws].status # "open")]
  /\ UNCHANGED <<tool, delay, dry_run, ws, state, connected, state_ready, pending_ack, listen_task,
                 reconnect_task, subscriptions, sock, wire, sup, fut, call, ctl, nsend>>

\* gather is through (all tasks ended, or one has raised): bootstrap_deck
\* returns or leaves by the exception; tasks still waiting go on by themselves
BootstrapEnd ==
  /\ boot.pc = "loading"
  /\ boot.raised \/ (boot.started = Len(boot.clips) /\ boot.inflight = {})
  /\ boot' = [boot EXCEPT !.pc = IF boot.raised THEN "failed" ELSE "done"]
  /\ UNCHANGED <<tool, delay, dry_run, ws, state, connected, state_ready, pending_ack, listen_task,
                 reconnect_task, subscriptions, sock, wire, sup, fut, call, ctl, nsend>>

(***************************************************************************)
(* get_client of the tool layer (tools_server.py lines 27-38,              *)
(* code_server.py lines 170-181).  The variables of the client are those   *)
(* of the instance _client names.  An instance get_client replaces is not  *)
(* disconnected: its sockets and tasks are marked "abandoned", they live   *)
(* on with the old object and no longer touch the fields of the new one.   *)
(***************************************************************************)
MaxToolCalls == 3          \* get_client calls made over a run

AbandonedSockets(sk) ==
  [s \in Sockets |->
     IF sk[s].status = "unused" THEN sk[s]
     ELSE [status |-> "abandoned", listener |-> "abandoned"]]
AbandonedSups(sp) ==
  [r \in Sockets |-> IF sp[r] = NoSup THEN sp[r] ELSE [sp[r] EXCEPT !.pc = "abandoned"]]

\* `if _client is None or not _client._connected`
NeedsNewClient == tool.client = 0 \/ ~connected

\* get_client(): either returns the instance it has, or makes a new instance
\* (ResolumeAgentClient(), client.py lines 25-38) and calls its connect() up
\* to the opening of the socket; ConnectOpen .. ConnectTimeout go on from
\* there, and get_client raises RuntimeError when connect() returns False
GetClient ==
  /\ ctl.pc = "idle"
  /\ tool.calls < MaxToolCalls
  /\ IF NeedsNewClient
     THEN /\ tool' = [client |-> tool.client + 1, calls |-> tool.calls + 1]
          /\ sock' = AbandonedSockets(sock)
          /\ sup' = AbandonedSups(sup)
          /\ ws' = NoSocket
          /\ state' = Dict(<<>>)
          /\ connected' = FALSE
          /\ state_ready' = FALSE
          /\ pending_ack' = <<>>
          /\ listen_task' = NoTask
          /\ reconnect_task' = NoTask
          /\ subscriptions' = {}
          /\ ctl' = [pc |-> "c_opening", last |-> "connect", sock |-> NoSocket, full |-> FALSE]
     ELSE /\ tool' = [tool EXCEPT !.calls = @ + 1]
          /\ UNCHANGED <<sock, sup, ws, state, connected, state_ready, pending_ack, listen_task,
                         reconnect_task, subscriptions, ctl>>
  /\ UNCHANGED <<boot, delay, dry_run, wire, fut, call, nsend>>

(***************************************************************************)
(* The client and its environment: every operation together.  The          *)
(* specifications below take parts of Next, so each of their behaviours is *)
(* a behaviour of Spec.                                                    *)
(***************************************************************************)
Next ==
  \/ ConnectDryRun
  \/ ConnectBegin
  \/ ConnectOpen
  \/ ConnectOpenFails
  \/ ConnectReady
  \/ ConnectTimeout
  \/ DisconnectBegin
  \/ DisconnectEnd
  \/ \E s \in Sockets : \E tree \in FullFrames : ListenFull(s, tree)
  \/ \E s \in Sockets : \E path \in Paths : \E value \in Values : ListenIncremental(s, path, value)
  \/ \E s \in Sockets : ListenClosed(s)
  \/ \E r \in Sockets : ReconnectWake(r)
  \/ \E r \in Sockets : ReconnectOpen(r)
  \/ \E r \in Sockets : ReconnectOpenFails(r)
  \/ \E r \in Sockets : ReconnectReady(r)
  \/ \E r \in Sockets : ReconnectTimeout(r)
  \/ \E c \in Calls : \E path \in CallPaths : \E value \in Values : SendAndWait(c, path, value)
  \/ \E c \in Calls : WaitTimerFires(c)
  \/ \E c \in Calls : WaitTimedOut(c)
  \/ \E path \in SubPaths : Subscribe(path)
  \/ \E path \in SubPaths : Unsubscribe(path)

Spec == Init /\ [][Next]_vars

(***************************************************************************)
(* The connection's life alone: connect, disconnect, the listener's        *)
(* full-state frame and closure, the reconnect loop, the Subscription Set. *)
(* The correlated sends change only fut, call, pending_ack and wire, and   *)
(* are left to SpecAck.                                                    *)
(***************************************************************************)
NextLife ==
  \/ ConnectDryRun
  \/ ConnectBegin
  \/ ConnectOpen
  \/ ConnectOpenFails
  \/ ConnectReady
  \/ ConnectTimeout
  \/ DisconnectBegin
  \/ DisconnectEnd
  \/ \E s \in Sockets : \E tree \in FullFrames : ListenFull(s, tree)
  \/ \E s \in Sockets : ListenClosed(s)
  \/ \E r \in Sockets : ReconnectWake(r)
  \/ \E r \in Sockets : ReconnectOpen(r)
  \/ \E r \in Sockets : ReconnectOpenFails(r)
  \/ \E r \in Sockets : ReconnectReady(r)
  \/ \E r \in Sockets : ReconnectTimeout(r)
  \/ \E path \in SubPaths : Subscribe(path)
  \/ \E path \in SubPaths : Unsubscribe(path)

SpecLife == Init /\ [][NextLife]_vars

(***************************************************************************)
(* The correlated sends over connect, disconnect and closures.  subscribe  *)
(* and unsubscribe (they change only the Subscription Set and the wire)    *)
(* and the steps of a started reconnect loop are left to SpecLife.         *)
(***************************************************************************)
NextAck ==
  \/ ConnectDryRun
  \/ ConnectBegin
  \/ ConnectOpen
  \/ ConnectOpenFails
  \/ ConnectReady
  \/ ConnectTimeout
  \/ DisconnectBegin
  \/ DisconnectEnd
  \/ \E s \in Sockets : \E tree \in FullFrames : ListenFull(s, tree)
  \/ \E s \in Sockets : \E path \in Paths : \E value \in Values : ListenIncremental(s, path, value)
  \/ \E s \in Sockets : ListenClosed(s)
  \/ \E c \in Calls : \E path \in CallPaths : \E value \in Values : SendAndWait(c, path, value)
  \/ \E c \in Calls : WaitTimerFires(c)
  \/ \E c \in Calls : WaitTimedOut(c)

SpecAck == Init /\ [][NextAck]_vars

(***************************************************************************)
(* The patch logic on its own: a connected client whose listener receives  *)
(* full-state frames and incremental frames over richer trees and paths.   *)
(***************************************************************************)
Param(id, v) ==
  Dict([k \in {"id", "value", "min"} |->
          CASE k = "id" -> Num(id) [] k = "value" -> v [] k = "min" -> Num(0)])

\* {"name": {"value": nm}, "video": {"opacity": {...}}, "1": {"value": 1}}
Layer(nm, opacity) ==
  Dict([k \in {"name", "video", "1"} |->
          CASE k = "name" -> Dict([f \in {"value"} |-> Str(nm)])
            [] k = "video" -> Dict([f \in {"opacity"} |-> Param(7, opacity)])
            [] k = "1" -> Dict([f \in {"value"} |-> Num(1)])])

\* {"layers": [Layer, Layer], "decks": [], "tempocontroller": {"tempo": {...}}}
TwoLayers(opacity) ==
  Dict([k \in {"layers", "decks", "tempocontroller"} |->
          CASE k = "layers" -> List(<<Layer("Layer 1", opacity), Layer("b", Num(2))>>)
            [] k = "decks" -> List(<<>>)
            [] k = "tempocontroller" -> Dict([f \in {"tempo"} |-> Param(2, Num(1))])])

\* {"layers": [{"name": {"value": "Layer 1"}}]}
ScenarioTree ==
  Dict([k \in {"layers"} |->
          List(<<Dict([f \in {"name"} |-> Dict([g \in {"value"} |-> Str("Layer 1")])])>>)])

PatchTrees == {TwoLayers(Num(1)), ScenarioTree, Composition(Str("x"))}

PatchPaths ==
  { <<"", "composition", "layers", "0", "video", "opacity">>,
    <<"", "composition", "layers", "1", "video", "opacity">>,
    <<"", "layers", "-1", "video", "opacity">>,
    <<"", "composition", "tempocontroller", "tempo">>,
    <<"", "composition", "layers", "0", "name">>,
    <<"", "composition", "layers", "0", "bypassed">>,
    <<"", "composition", "layers", "0">>,
    <<"", "composition", "layers">>,
    <<"", "composition", "layers", "2", "video", "opacity">>,
    <<"", "composition", "nosuch">>,
    <<"", "composition", "layers", "0", "name", "value", "0">>,
    <<"", "composition", "layers", "0", "1">>,
    <<"", "composition", "tempocontroller", "tempo", "id", "0">>,
    <<"", "composition">>,
    <<"">> }

PatchValues == {Num(0), Str("y")}

\* connect() has returned True on its first full-state frame
InitPatch ==
  /\ dry_run = FALSE
  /\ ws = 1
  /\ state \in PatchTrees
  /\ connected = TRUE
  /\ state_ready = TRUE
  /\ pending_ack = <<>>
  /\ listen_task = 1
  /\ reconnect_task = NoTask
  /\ subscriptions = {}
  /\ sock = [s \in Sockets |->
               IF s = 1 THEN [status |-> "open", listener |-> "running"]
               ELSE [status |-> "unused", listener |-> "none"]]
  /\ wire = [s \in Sockets |-> <<>>]
  /\ sup = [s \in Sockets |-> NoSup]
  /\ fut = [c \in Calls |-> [st |-> "none", val |-> Null]]
  /\ call = [c \in Calls |-> [pc |-> "idle", path |-> <<>>]]
  /\ ctl = [pc |-> "idle", last |-> "connect", sock |-> NoSocket, full |-> FALSE]
  /\ nsend = 0
  /\ delay = NoDelay
  /\ boot = NoBoot
  /\ tool = NoTool

NextPatch ==
  \/ \E tree \in PatchTrees : ListenFull(1, tree)
  \/ \E path \in PatchPaths : \E value \in PatchValues : ListenIncremental(1, path, value)

SpecPatch == InitPatch /\ [][NextPatch]_vars

(***************************************************************************)
(* Commands and their echo: a connected client whose callers send plain    *)
(* and correlated commands while the listener processes incremental frames.*)
(***************************************************************************)
MaxWire == 2               \* frames plain commands add to a socket over a run

\* a caller's `await self.send_command(action, path, body_or_value)`; a send
\* that raises leaves by ConnectionClosed, nothing changed
SendCommandCall(action, path, body_or_value) ==
  /\ SendResult(connected, ws) = "sent" => Len(wire[ws]) < MaxWire
  /\ wire' = SendCommand(wire, connected, ws, action, path, body_or_value)
  /\ UNCHANGED <<tool, boot, delay, dry_run, ws, state, connected, state_ready, pending_ack, listen_task,
                 reconnect_task, subscriptions, sock, sup, fut, call, ctl, nsend>>

\* f"/composition/layers/{layer_index}/video/opacity"
LayerOpacityPath(layer_index) ==
  <<"", "composition", "layers", IntStr(layer_index), "video", "opacity">>

\* set_layer_opacity(layer_index, opacity) (lines 406-412)
SetLayerOpacity(layer_index, opacity) ==
  SendCommandCall("set", LayerOpacityPath(layer_index), opacity)

\* d.get(key, {}) on a mapping
GetOrEmpty(d, key) == IF key \in DOMAIN d.kv THEN d.kv[key] ELSE Dict(<<>>)

\* self.state.get(group, {}).get(param, {}).get("id"): Null for None
CachedParamId(tree, group, param) ==
  LET node == GetOrEmpty(GetOrEmpty(tree, group), param)
  IN IF "id" \in DOMAIN node.kv THEN node.kv["id"] ELSE Null

TempoPath == <<"", "composition", "tempocontroller", "tempo">>
CrossfaderPath == <<"", "composition", "crossfader", "phase">>

\* the target of the `set`: by id `if param_id`, else the fixed path
SetTarget(param_id, fixed) ==
  IF Truthy(param_id) THEN <<"", "parameter", "by-id", IntStr(param_id.v)>> ELSE fixed

\* set_bpm(bpm) (lines 430-438)
SetBpm(bpm) ==
  SendCommandCall("set", SetTarget(CachedParamId(state, "tempocontroller", "tempo"), TempoPath), bpm)

\* set_crossfader(position) (lines 440-447)
SetCrossfader(position) ==
  SendCommandCall("set", SetTarget(CachedParamId(state, "crossfader", "phase"), CrossfaderPath),
                  position)

NoSuchPath == <<"", "composition", "nosuch">>
FrameCallPaths == {LayerOpacityPath(1), NoSuchPath}
LayerIndexes == {1, 2}

\* the frames' paths: two that lead to a parameter of the two-layer tree, a
\* missing key, an index past the end, a walk through a string and through a
\* number, a numeric segment on a mapping, and the empty path
FramePaths ==
  { LayerOpacityPath(0),
    LayerOpacityPath(1),
    NoSuchPath,
    LayerOpacityPath(2),
    <<"", "composition", "layers", "0", "name", "value", "0">>,
    <<"", "composition", "tempocontroller", "tempo", "id", "0">>,
    <<"", "composition", "layers", "0", "1">>,
    <<"">> }
FrameValues == {Num(0)}

NextFrames ==
  \/ \E path \in FramePaths : \E value \in FrameValues : ListenIncremental(1, path, value)
  \/ \E c \in Calls : \E path \in FrameCallPaths : SendAndWait(c, path, Num(0))
  \/ \E layer_index \in LayerIndexes : SetLayerOpacity(layer_index, Num(0))

SpecFrames == InitPatch /\ [][NextFrames]_vars

(***************************************************************************)
(* A connected client left to itself: no caller of connect or disconnect,  *)
(* only the listeners, the socket closures and the reconnect loops, and    *)
(* callers of subscribe / unsubscribe.                                     *)
(***************************************************************************)
NextReconnect ==
  \/ \E s \in Sockets : \E tree \in FullFrames : ListenFull(s, tree)
  \/ \E s \in Sockets : ListenClosed(s)
  \/ \E r \in Sockets : ReconnectWake(r)
  \/ \E r \in Sockets : ReconnectOpen(r)
  \/ \E r \in Sockets : ReconnectOpenFails(r)
  \/ \E r \in Sockets : ReconnectReady(r)
  \/ \E r \in Sockets : ReconnectTimeout(r)
  \/ \E path \in SubPaths : Subscribe(path)
  \/ \E path \in SubPaths : Unsubscribe(path)

SpecReconnect == InitPatch /\ [][NextReconnect]_vars

(***************************************************************************)
(* One unexpected closure: the connection (socket 1) of a connected client *)
(* closes, and no other socket does.  A task woken from its wait for       *)
(* _state_ready is run by the event loop, hence the fairness condition.    *)
(***************************************************************************)
NextRecover ==
  \/ \E s \in Sockets : \E tree \in FullFrames : ListenFull(s, tree)
  \/ ListenClosed(1)
  \/ \E r \in Sockets : ReconnectWake(r)
  \/ \E r \in Sockets : ReconnectOpen(r)
  \/ \E r \in Sockets : ReconnectOpenFails(r)
  \/ \E r \in Sockets : ReconnectReady(r)
  \/ \E r \in Sockets : ReconnectTimeout(r)
  \/ \E path \in SubPaths : Subscribe(path)
  \/ \E path \in SubPaths : Unsubscribe(path)

SpecRecover ==
  InitPatch /\ [][NextRecover]_vars /\ WF_vars(\E r \in Sockets : ReconnectReady(r))

(***************************************************************************)
(* The delay schedule on its own: the loop's turn for attempt number       *)
(* `attempt` computes its delay with the jitter drawn.                     *)
(***************************************************************************)
ComputeDelay(attempt, jitter) ==
  /\ delay' = [attempt |-> attempt, ticks |-> BackoffDelay(attempt, jitter)]
  /\ UNCHANGED <<tool, boot, dry_run, ws, state, connected, state_ready, pending_ack, listen_task,
                 reconnect_task, subscriptions, sock, wire, sup, fut, call, ctl, nsend>>

NextDelay ==
  \E attempt \in 0..(DelayAttempts - 1) : \E jitter \in 0..(JitterSteps - 1) :
    ComputeDelay(attempt, jitter)

SpecDelay == Init /\ [][NextDelay]_vars

(***************************************************************************)
(* send_command on its own: callers of a connected client send commands of *)
(* every verb, with and without a payload.                                 *)
(***************************************************************************)
Verbs == {"post", "remove", "get", "set", "subscribe", "unsubscribe", "trigger"}
CmdPaths == {PathA, NoSuchPath}
CmdPayloads == {Null, Bool(FALSE), Num(0), Str("y")}

NextCmd ==
  \E action \in Verbs : \E path \in CmdPaths : \E body_or_value \in CmdPayloads :
    SendCommandCall(action, path, body_or_value)

SpecCmd == InitPatch /\ [][NextCmd]_vars

(***************************************************************************)
(* subscribe and unsubscribe on their own: callers subscribe before the    *)
(* client is connected, while connect waits, and after full-state frames   *)
(* whose parameter has the id 7 or the id 0.                               *)
(***************************************************************************)
\* {"layers": [{"bypassed": {"id": 0, "value": "x"}}]}
ZeroIdComposition ==
  Dict([k \in {"layers"} |-> List(<<Dict([k2 \in {"bypassed"} |-> ParamLeaf(0, Str("x"))])>>)])

SubFrames == {Composition(Str("x")), ZeroIdComposition}

NextSubs ==
  \/ ConnectDryRun
  \/ ConnectBegin
  \/ ConnectOpen
  \/ ConnectOpenFails
  \/ ConnectReady
  \/ ConnectTimeout
  \/ \E s \in Sockets : \E tree \in SubFrames : ListenFull(s, tree)
  \/ \E path \in SubPaths : Subscribe(path)
  \/ \E path \in SubPaths : Unsubscribe(path)

SpecSubs == Init /\ [][NextSubs]_vars

(***************************************************************************)
(* Correlated sends and frames whose paths name the same node with and     *)
(* without the leading "composition" segment.                              *)
(***************************************************************************)
NormCallPaths == {PathA, PathA2}

NextNorm ==
  \/ \E path \in Paths : \E value \in Values : ListenIncremental(1, path, value)
  \/ \E c \in Calls : \E path \in NormCallPaths : \E value \in Values : SendAndWait(c, path, value)
  \/ \E c \in Calls : WaitTimerFires(c)
  \/ \E c \in Calls : WaitTimedOut(c)

SpecNorm == InitPatch /\ [][NextNorm]_vars

(***************************************************************************)
(* The resolver and the patch on the same trees: the empty tree of the     *)
(* fresh client, the trees of full-state frames (one whose root holds an   *)
(* `id`), and what incremental frames make of them.                        *)
(***************************************************************************)
\* {"id": 1, "layers": [{"bypassed": {"id": 7, "value": "x"}}]}
RootIdTree ==
  Dict([k \in {"id", "layers"} |->
          IF k = "id" THEN Num(1)
          ELSE List(<<Dict([k2 \in {"bypassed"} |-> ParamLeaf(7, Str("x"))])>>)])

ResolveFrames == {TwoLayers(Num(1)), RootIdTree}
ResolveSubPaths == {<<"", "composition">>, <<"", "composition", "layers", "0", "video", "opacity">>}

NextResolve ==
  \/ ConnectBegin
  \/ ConnectOpen
  \/ ConnectReady
  \/ \E s \in Sockets : \E tree \in ResolveFrames : ListenFull(s, tree)
  \/ \E s \in Sockets : \E path \in FramePaths : \E value \in FrameValues :
       ListenIncremental(s, path, value)
  \/ \E path \in ResolveSubPaths : Subscribe(path)

SpecResolve == Init /\ [][NextResolve]_vars

(***************************************************************************)
(* set_bpm and set_crossfader on the connected client, with full-state     *)
(* frames that cache the ids 2 and 7, the id 0, or no tempo and crossfader *)
(* at all.                                                                 *)
(***************************************************************************)
\* {"layers": [], "tempocontroller": {"tempo": {"id": tid, ...}},
\*  "crossfader": {"phase": {"id": cid, ...}}}
TempoTree(tid, cid) ==
  Dict([k \in {"layers", "tempocontroller", "crossfader"} |->
          CASE k = "layers" -> List(<<>>)
            [] k = "tempocontroller" -> Dict([f \in {"tempo"} |-> ParamLeaf(tid, Num(1))])
            [] k = "crossfader" -> Dict([f \in {"phase"} |-> ParamLeaf(cid, Num(0))])])

TempoFrames == {TempoTree(2, 7), TempoTree(0, 0), ScenarioTree}
TempoValues == {Num(0), Num(2)}

NextTempo ==
  \/ \E tree \in TempoFrames : ListenFull(1, tree)
  \/ \E bpm \in TempoValues : SetBpm(bpm)
  \/ \E position \in TempoValues : SetCrossfader(position)

SpecTempo == InitPatch /\ [][NextTempo]_vars

(***************************************************************************)
(* bootstrap_deck on the connected client, alone: Resolume answers with    *)
(* full-state frames and echoes, or does not answer; the socket may close. *)
(***************************************************************************)
Deck(id) == Dict([k \in {"id"} |-> Num(id)])

\* {"decks": [{"id": 1}]} and {"decks": [{"id": 1}, {"id": 2}]}
OneDeck == Dict([k \in {"decks"} |-> List(<<Deck(1)>>)])
TwoDecks == Dict([k \in {"decks"} |-> List(<<Deck(1), Deck(2)>>)])

BootFrames == {OneDeck, TwoDecks}
BootFramePaths == {DecksAddPath, DeckNamePath(1), DeckNamePath(2)}
BootNames == {Str("Set A")}
SixClips == <<"/clips/a.mov", "/clips/b c.mov", "/clips/a.mov",
              "/clips/a.mov", "/clips/b c.mov", "/clips/a.mov">>
ClipLists == {<<>>, SixClips}
GridWidths == {2, 3}
ClipNumbers == 0..(Len(SixClips) - 1)

NextBoot ==
  \/ \E c \in Calls : \E name \in BootNames : \E clips_paths \in ClipLists :
       \E grid_width \in GridWidths : BootstrapBegin(c, name, clips_paths, grid_width)
  \/ \E c \in Calls : BootstrapRename(c)
  \/ BootstrapFails
  \/ BootstrapGather
  \/ \E i \in ClipNumbers : \E suspend \in BOOLEAN : LoadClipSend(i, suspend)
  \/ \E i \in ClipNumbers : LoadClipDone(i)
  \/ BootstrapEnd
  \/ \E tree \in BootFrames : ListenFull(1, tree)
  \/ \E path \in BootFramePaths : \E value \in BootNames : ListenIncremental(1, path, value)
  \/ ListenClosed(1)
  \/ \E c \in Calls : WaitTimerFires(c)
  \/ \E c \in Calls : WaitTimedOut(c)

SpecBoot == InitPatch /\ [][NextBoot]_vars

(***************************************************************************)
(* The tool layer: every client is made and connected by get_client;       *)
(* sockets close, reconnect loops run.                                     *)
(***************************************************************************)
InitTool == Init /\ dry_run = FALSE

NextTool ==
  \/ GetClient
  \/ ConnectOpen
  \/ ConnectOpenFails
  \/ ConnectReady
  \/ ConnectTimeout
  \/ \E s \in Sockets : \E tree \in FullFrames : ListenFull(s, tree)
  \/ \E s \in Sockets : ListenClosed(s)
  \/ \E r \in Sockets : ReconnectWake(r)
  \/ \E r \in Sockets : ReconnectOpen(r)
  \/ \E r \in Sockets : ReconnectOpenFails(r)
  \/ \E r \in Sockets : ReconnectReady(r)
  \/ \E r \in Sockets : ReconnectTimeout(r)

SpecTool == InitTool /\ [][NextTool]_vars

(***************************************************************************)
(* C1..C37                                                                 *)
(***************************************************************************)
\* the number of `subscribe` frames for path p in the frames w
SubscribeCount(w, p) ==
  Cardinality({i \in 1..Len(w) : w[i] = Payload("subscribe", p, Null)})

\* C1: when a reconnect attempt succeeds, every path of the Subscription Set
\* that was subscribed on the lost socket (so was in the set before the loss)
\* has been written to the new socket as a subscribe frame exactly once.
C1_ReplayedExactlyOnce ==
  [][\A r \in Sockets :
       ReconnectReady(r) /\ sup'[r].pc = "done" =>
         \A p \in subscriptions :
           SubscribeCount(wire[r], p) > 0 => SubscribeCount(wire'[ws], p) = 1]_vars

\* C2: once disconnect() has returned and until connect is called again, no
\* reconnect loop is started and none makes an attempt.
C2_DisconnectWins ==
  [][(ctl.pc = "idle" /\ ctl.last = "disconnect" /\ ctl'.last = "disconnect") =>
       \A r \in Sockets :
         /\ sup[r].pc = "none" => sup'[r].pc = "none"
         /\ ~(sup[r].pc = "sleeping" /\ sup'[r].pc = "opening")]_vars

\* C6: a disconnect() called while a reconnect loop sleeps in its backoff
\* cancels that loop (it never opens a socket).
C6_SleepingAttemptCancelled ==
  [][DisconnectBegin =>
       \A r \in Sockets : sup[r].pc = "sleeping" => sup'[r].pc = "cancelled"]_vars

\* C7: at most one open socket, one running listener and one running
\* reconnect loop at any time.
C7_OneConnectionHandle ==
  /\ Cardinality({s \in Sockets : sock[s].status = "open"}) <= 1
  /\ Cardinality({s \in Sockets : sock[s].listener = "running"}) <= 1
  /\ Cardinality({r \in Sockets : SupActive(r)}) <= 1

\* C3 as stated: a send_and_wait call ends either by returning the value of an
\* incremental frame or by a timeout, and in no other way.
C3_ValueOrTimeout ==
  \A c \in Calls :
    \/ Outcome(c) \in {"running", "timeout"}
    \/ Outcome(c) = "returned" /\ fut[c].val \in Values

\* C3 amended: a call returns a frame's value only by an incremental frame whose
\* path is exactly the call's path, processed while the call's future is the one
\* registered for that path; every such frame resolves the registered future with
\* its value and removes the entry; the other ends are None (full-state frame),
\* a connection-closed error, a cancellation and a timeout; and a call that has
\* failed with a timeout has no entry of its own in the Ack Registry.
C3_Amended ==
  [][/\ \A c \in Calls :
          (NotDone(fut, c) /\ fut'[c].st = "result" /\ fut'[c].val # Null) =>
            /\ call[c].path \in DOMAIN pending_ack
            /\ pending_ack[call[c].path] = c
            /\ \E s \in Sockets : ListenIncremental(s, call[c].path, fut'[c].val)
     /\ \A s \in Sockets : \A p \in Paths : \A v \in Values :
          (ListenIncremental(s, p, v) /\ p \in DOMAIN pending_ack
             /\ NotDone(fut, pending_ack[p])) =>
            /\ fut'[pending_ack[p]] = [st |-> "result", val |-> v]
            /\ p \notin DOMAIN pending_ack'
     /\ \A c \in Calls :
          /\ Outcome(c)' \in {"running", "returned", "timeout", "connection_error",
                              "connection_closed", "cancelled"}
          /\ call'[c].pc = "timeout" =>
               ~(call'[c].path \in DOMAIN pending_ack' /\ pending_ack'[call'[c].path] = c)]_vars

\* a call has returned the value of an incremental frame, another has timed out
C3_Witness ==
  \E c, d \in Calls :
    /\ Outcome(c) = "returned" /\ fut[c].val \in Values
    /\ Outcome(d) = "timeout" /\ call[d].pc = "timeout"

C5_ClosureFailsPending ==
  [][\A s \in Sockets :
       (ListenClosed(s) /\ pending_ack # <<>>) =>
         /\ \A c \in Futures(pending_ack) :
              NotDone(fut, c) => fut'[c].st = "exception"
         /\ pending_ack' = <<>>
         /\ ~connected'
         /\ sup[s].pc = "none" /\ sup'[s].pc = "sleeping" /\ reconnect_task' = s]_vars

\* a waiting call has failed with the connection-closed error and a reconnect
\* loop sleeps before its first attempt
C5_Witness ==
  /\ ~connected
  /\ pending_ack = <<>>
  /\ \E c \in Calls : Outcome(c) = "connection_error"
  /\ \E r \in Sockets : sup[r].pc = "sleeping" /\ reconnect_task = r

\* C8 as stated: disconnect() wakes every caller blocked in send_and_wait with a
\* failure, and leaves the registry empty.
C8_EveryWaiterWoken ==
  [][DisconnectBegin =>
       /\ \A c \in Calls : call[c].pc = "waiting" => ~NotDone(fut', c)
       /\ pending_ack' = <<>>]_vars

\* C8 amended: disconnect() cancels every pending future held in the Ack
\* Registry and empties the registry, in the step that ends at ws.close(),
\* so before self.ws is released.
C8_Amended ==
  [][DisconnectBegin =>
       /\ \A c \in Futures(pending_ack) :
            /\ NotDone(fut, c) => fut'[c].st = "cancelled"
            /\ ~NotDone(fut', c)
       /\ pending_ack' = <<>>
       /\ ws # NoSocket => (ws' = ws /\ ctl'.pc = "d_closing")]_vars

\* a blocked call was cancelled by a disconnect() that is still closing the socket
C8_Witness ==
  /\ ctl.pc = "d_closing"
  /\ ws # NoSocket
  /\ \E c \in Calls : Outcome(c) = "cancelled"

\* C9: disconnect() raises nothing in any state, the never-connected one
\* included; it leaves the client not connected, without socket, with an empty
\* registry, the readiness signal cleared and the Subscription Set as it was;
\* and a second call changes nothing the first call left.
C9_DisconnectIdempotent ==
  LET once == Disconnect(Client)
      twice == Disconnect(once)
  IN /\ ~once.raised /\ ~twice.raised
     /\ twice = once
     /\ ~once.connected
     /\ once.ws = NoSocket
     /\ once.pending_ack = <<>>
     /\ ~once.state_ready
     /\ once.subscriptions = subscriptions

\* disconnect() has returned on a client that had a socket and a waiting call,
\* and a further call would change nothing
C9_Witness ==
  /\ ctl.pc = "idle" /\ ctl.last = "disconnect"
  /\ \E s \in Sockets : sock[s].status = "closed" /\ sock[s].listener = "cancelled"
  /\ \E c \in Calls : Outcome(c) = "cancelled"
  /\ Disconnect(Client) = Client

\* The places of a tree: a place is the sequence of mapping keys [k |-> key]
\* and sequence positions [i |-> n] that leads from the root to a node.
RECURSIVE Places(_)
Places(node) ==
  {<<>>} \cup
  CASE node.t = "dict" ->
         UNION {{<<[k |-> key]>> \o q : q \in Places(node.kv[key])} : key \in DOMAIN node.kv}
    [] node.t = "list" ->
         UNION {{<<[i |-> n]>> \o q : q \in Places(node.items[n])} : n \in DOMAIN node.items}
    [] OTHER -> {}

RECURSIVE NodeAt(_, _)
NodeAt(node, place) ==
  IF place = <<>> THEN node
  ELSE IF "k" \in DOMAIN Head(place)
       THEN NodeAt(node.kv[Head(place).k], Tail(place))
       ELSE NodeAt(node.items[Head(place).i], Tail(place))

\* the place a resolving path leads to
RECURSIVE PlaceOf(_, _)
PlaceOf(node, segs) ==
  IF segs = <<>> THEN <<>>
  ELSE LET st == WalkStep(node, Head(segs))
       IN <<IF node.t = "dict" THEN [k |-> st.key] ELSE [i |-> st.key]>>
            \o PlaceOf(st.node, Tail(segs))

IsPrefix(a, b) == Len(a) <= Len(b) /\ SubSeq(b, 1, Len(a)) = a

\* the path resolves to an existing leaf parameter: a mapping that carries `value`
ResolvesToLeaf(tree, path) ==
  LET w == Walk(tree, PathSegs(path))
  IN PathSegs(path) # <<>> /\ w.ok /\ IsDict(w.node) /\ "value" \in DOMAIN w.node.kv

\* C10: an incremental frame whose path resolves to an existing leaf parameter
\* sets that leaf's `value` to the frame's value; the tree keeps its places, and
\* every node that is not the leaf or one of its ancestors is unchanged (so the
\* leaf's other fields and all other nodes are).
C10_LeafValuePatched ==
  [][\A path \in PatchPaths : \A value \in PatchValues :
       (ListenIncremental(1, path, value) /\ ResolvesToLeaf(state, path)) =>
         LET leaf == PlaceOf(state, PathSegs(path))
         IN /\ Places(state') = Places(state)
            /\ \A place \in Places(state) :
                 IF place = leaf \o <<[k |-> "value"]>>
                 THEN NodeAt(state', place) = value
                 ELSE IF IsPrefix(place, leaf)
                 THEN NodeAt(state', place).t = NodeAt(state, place).t
                 ELSE NodeAt(state', place) = NodeAt(state, place)]_vars

\* the first layer's opacity and the tempo have been patched, their ids kept
C10_Witness ==
  /\ "tempocontroller" \in DOMAIN state.kv
  /\ state.kv["tempocontroller"].kv["tempo"] = Param(2, Str("y"))
  /\ state.kv["layers"].items[1].kv["video"].kv["opacity"] = Param(7, Num(0))
  /\ state.kv["layers"].items[2] = Layer("b", Num(2))

\* the walk along the path reaches a mapping (the node whose `value` is set)
ReachesMapping(tree, path) ==
  LET w == Walk(tree, PathSegs(path))
  IN PathSegs(path) # <<>> /\ w.ok /\ IsDict(w.node)

\* C11: an incremental frame whose path does not lead to a mapping of the tree
\* (missing key, index out of range, walk through or to a scalar, empty path)
\* leaves the tree as it is; no exception ends the listener, which keeps
\* running on its open socket, and the client stays connected.
C11_UnresolvedFrameIgnored ==
  [][\A path \in FramePaths : \A value \in FrameValues :
       (ListenIncremental(1, path, value) /\ ~ReachesMapping(state, path)) =>
         /\ state' = state
         /\ sock' = sock /\ Listening(1)'
         /\ connected /\ connected']_vars

\* the frame for a path that is in no tree has been processed (it resolved the
\* call waiting for it): the tree is one a full-state frame brought, the
\* listener runs, the client is connected
C11_Witness ==
  /\ \E c \in Calls :
       call[c].path = NoSuchPath /\ Outcome(c) = "returned" /\ fut[c].val = Num(0)
  /\ state \in PatchTrees
  /\ Listening(1) /\ connected

\* the tree holds value v at the path: the client's own walk along the path
\* ends at a parameter whose `value` is v
HoldsAt(tree, path, v) ==
  LET w == Walk(tree, PathSegs(path))
  IN /\ PathSegs(path) # <<>> /\ w.ok /\ IsDict(w.node)
     /\ "value" \in DOMAIN w.node.kv /\ w.node.kv["value"] = v

\* C12: on the tree {"layers":[{"name":{"value":"Layer 1"}}]},
\* set_layer_opacity(1, 0.0) writes exactly the frame {set, parameter
\* "/composition/layers/1/video/opacity", value 0.0}; and when the incremental
\* frame with that path and value 0.0 is processed, the call waiting on that
\* path is resolved with 0.0 and the tree holds 0.0 at that path.
C12_OpacityScenario ==
  [][/\ (state = ScenarioTree /\ SetLayerOpacity(1, Num(0))) =>
          wire'[ws] = Append(wire[ws], [action |-> "set",
                                        parameter |-> LayerOpacityPath(1),
                                        value |-> Num(0)])
     /\ (state = ScenarioTree /\ ListenIncremental(1, LayerOpacityPath(1), Num(0))) =>
          /\ \A c \in Calls :
               (LayerOpacityPath(1) \in DOMAIN pending_ack
                  /\ pending_ack[LayerOpacityPath(1)] = c /\ NotDone(fut, c)) =>
                 fut'[c] = [st |-> "result", val |-> Num(0)]
          /\ HoldsAt(state', LayerOpacityPath(1), Num(0))]_vars

\* C13: a connect() that returns while no full-state frame has been processed
\* on the socket it opened (none was opened, or none arrived on it) returns
\* failure: it neither returns success nor raises.
C13_SuccessOnlyAfterFrame ==
  [][(ctl.pc \in {"c_opening", "c_waiting", "c_ready"} /\ ctl'.pc = "idle" /\ ~ctl.full) =>
       ctl'.last = "connect_failed"]_vars

\* C14: after connect() has returned failure and until the caller's next
\* call, the client does not become connected, no reconnect loop is started,
\* none makes an attempt, and nothing is written to a socket.
C14_FailedConnectStaysDown ==
  [][(ctl.pc = "idle" /\ ctl.last = "connect_failed" /\ ctl' = ctl) =>
       /\ connected' => connected
       /\ wire' = wire
       /\ \A r \in Sockets :
            /\ sup[r].pc = "none" => sup'[r].pc = "none"
            /\ ~(sup[r].pc = "sleeping" /\ sup'[r].pc = "opening")]_vars

\* C15: a reconnect loop makes at most max_reconnect_attempts attempts, and
\* from the moment a loop has spent its budget the client stays not connected,
\* no reconnect loop is started and none makes an attempt (no caller calls
\* connect in SpecReconnect).
C15_BudgetIsTerminal ==
  [][/\ \A r \in Sockets : sup'[r].attempt < max_reconnect_attempts
     /\ (\E r \in Sockets : sup[r].pc = "exhausted") =>
          /\ ~connected'
          /\ \A r \in Sockets :
               /\ sup[r].pc = "none" => sup'[r].pc = "none"
               /\ ~(sup[r].pc = "sleeping" /\ sup'[r].pc = "opening")]_vars

\* C16: after the one closure, an attempt that has opened its socket and whose
\* wait for the first full-state frame has returned makes the client connected
\* and ends the loop; a loop that has ended this way stays ended and no
\* socket is opened after it; and such an attempt does lead to the connected
\* client with its loop ended.
C16_SuccessfulAttemptEndsLoop ==
  /\ [][\A r \in Sockets :
          /\ ReconnectReady(r) => (connected' /\ sup'[r].pc = "done")
          /\ sup[r].pc = "done" => (sup' = sup /\ sock' = sock /\ connected')]_vars
  /\ \A r \in Sockets : (sup[r].pc = "ready") ~> (connected /\ sup[r].pc = "done")

\* the loop has ended with the client connected on its second attempt
C16_Witness ==
  /\ connected
  /\ sup[1] = [pc |-> "done", attempt |-> 1]
  /\ ws = 2 /\ Listening(2)

\* the base the schedule is to have: 1, 2, 4, 8, 16, 32, then the cap of 60
ExpectedBase(n) == IF n <= 5 THEN 2 ^ n ELSE 60

ExpectedFields(action, body_or_value) ==
  {"action"}
    \cup (IF action \in {"post", "remove"} THEN {"path"} ELSE {"parameter"})
    \cup (IF body_or_value = Null THEN {}
          ELSE IF action \in {"post", "remove"} THEN {"body"} ELSE {"value"})

\* C18: a send_command call on the connected client writes exactly one frame,
\* on the client's socket; the frame has the verb, the path under `path` for
\* post and remove and under `parameter` for the other verbs, the payload
\* under `body` resp. `value` when one was supplied (false and 0 included),
\* and no other field.
C18_FrameShape ==
  [][\A action \in Verbs : \A path \in CmdPaths : \A body_or_value \in CmdPayloads :
       SendCommandCall(action, path, body_or_value) =>
         LET frame == wire'[ws][Len(wire'[ws])]
         IN /\ wire'[ws] = Append(wire[ws], frame)
            /\ \A s \in Sockets \ {ws} : wire'[s] = wire[s]
            /\ DOMAIN frame = ExpectedFields(action, body_or_value)
            /\ frame.action = action
            /\ IF action \in {"post", "remove"}
               THEN frame.path = path ELSE frame.parameter = path
            /\ body_or_value # Null =>
                 IF action \in {"post", "remove"}
                 THEN frame.body = body_or_value ELSE frame.value = body_or_value]_vars

\* a `set` with the payload 0 and a `post` without payload are on the wire
C18_Witness ==
  /\ Len(wire[1]) = 2
  /\ wire[1][1] = [action |-> "set", parameter |-> PathA, value |-> Num(0)]
  /\ wire[1][2] = [action |-> "post", path |-> NoSuchPath]

\* C19: whenever the client has no socket or its socket is not open, a
\* send_command call is a no-op (or the dry-run log): it writes nothing and
\* raises nothing.
C19_ClosedSocketNoOp ==
  (ws = NoSocket \/ sock[ws].status # "open") => SendResult(connected, ws) \in {"noop", "dry"}

\* the entries of the registry other than path's, and their futures, are left as they are
OthersUntouched(path) ==
  \A q \in DOMAIN pending_ack \ {path} :
    /\ q \in DOMAIN pending_ack'
    /\ pending_ack'[q] = pending_ack[q]
    /\ fut'[pending_ack[q]] = fut[pending_ack[q]]

\* C20: an incremental frame for a path, and the timeout of the call on a
\* path, leave the registry entries of every other path and their futures as
\* they are; and a frame for a path whose entry is pending resolves it with
\* the frame's value.
C20_PathsIndependent ==
  [][/\ \A s \in Sockets : \A p \in Paths : \A v \in Values :
          ListenIncremental(s, p, v) =>
            /\ OthersUntouched(p)
            /\ (p \in DOMAIN pending_ack /\ NotDone(fut, pending_ack[p])) =>
                 fut'[pending_ack[p]] = [st |-> "result", val |-> v]
     /\ \A c \in Calls :
          (WaitTimerFires(c) \/ WaitTimedOut(c)) =>
            /\ OthersUntouched(call[c].path)
            /\ \A d \in Calls \ {c} : fut'[d] = fut[d]]_vars

\* the call on one path has timed out and the call on the other path, pending
\* meanwhile, has returned its frame's value
C20_Witness ==
  \E c, d \in Calls :
    /\ call[c].path # call[d].path
    /\ call[c].pc = "timeout"
    /\ Outcome(d) = "returned" /\ fut[d].val = Str("y")
    /\ pending_ack = <<>>

\* the rendering of "/parameter/by-id/<id>" for a number id
ById(id) == <<"", "parameter", "by-id", IntStr(id)>>
IsById(p) == Len(p) = 4 /\ p[1] = "" /\ p[2] = "parameter" /\ p[3] = "by-id" /\ IsIntLiteral(p[4])

HeldId(tree, path) ==
  LET w == Walk(tree, PathSegs(path))
  IN IF w.ok /\ IsDict(w.node) /\ "id" \in DOMAIN w.node.kv THEN w.node.kv["id"] ELSE Null

C22_OnlySubscribeChangesSet ==
  [][subscriptions' # subscriptions =>
       \E path \in SubPaths : Subscribe(path) \/ Unsubscribe(path)]_vars

\* a reconnect loop has replayed and returned, a disconnect has been made
\* since, and the two subscriptions are still in the set
C22_Witness ==
  /\ Cardinality(subscriptions) = 2
  /\ \E r \in Sockets : sup[r].pc = "done"
  /\ ctl.pc = "idle" /\ ctl.last = "disconnect"

\* C23: the frames are applied to the State Tree by a single listener, in the
\* order of their arrival on its socket: whenever a listener applies a frame,
\* it is the listener of the client's socket and no other listener is running
\* that could apply a frame of another socket in between.
C23_SingleListenerApplies ==
  [][\A s \in Sockets :
       (\E tree \in FullFrames : ListenFull(s, tree)) =>
         /\ s = ws
         /\ \A o \in Sockets \ {s} : ~Listening(o)]_vars

\* C24: when disconnect() returns, the State Tree no longer holds the
\* composition it held: it is empty, and the id resolution of a path answers
\* not-found instead of an id of the old tree.
C24_TreeClearedOnDisconnect ==
  [][(DisconnectBegin \/ DisconnectEnd) /\ ctl'.pc = "idle" =>
       /\ state' = Dict(<<>>)
       /\ \A path \in SubPaths : ResolvePathToId(state', path) = Null]_vars

\* C25: a full-state frame replaces the State Tree wholesale and signals
\* state-ready: after the frame is processed the tree is exactly the frame's
\* content, whatever the tree held and whatever patches were applied to it
\* before, and the readiness event is set.
C25_FullFrameReplacesTree ==
  [][\A s \in Sockets : \A tree \in FullFrames :
       ListenFull(s, tree) => state' = tree /\ state_ready']_vars

\* the tree is the frame's again although an incremental frame for PathA had
\* been applied and returned to a caller
C25_Witness ==
  /\ state = Composition(Str("x"))
  /\ state_ready
  /\ Outcome(1) = "returned" /\ call[1].path = PathA /\ fut[1].val = Str("y")
  /\ Outcome(2) = "returned" /\ fut[2].val = Null

\* C26 (as stated): an incremental frame resolves a pending correlation only
\* after a successful patch: when the frame's path does not resolve to a leaf
\* parameter of the tree, the correlation registered for that path is not
\* resolved and stays in the registry.
C26_AckOnlyAfterPatch ==
  [][\A path \in FramePaths : \A value \in FrameValues :
       (ListenIncremental(1, path, value) /\ ~ResolvesToLeaf(state, path)) =>
         pending_ack' = pending_ack /\ fut' = fut]_vars

\* C26 (amended): an incremental frame resolves the pending correlation
\* registered under its path whether or not the patch found a node: when the
\* path leads to no mapping of the tree, the tree is unchanged, and still the
\* correlation leaves the registry and its waiting caller gets the frame's value.
C26_AckWithoutPatch ==
  [][\A path \in FramePaths : \A value \in FrameValues :
       (/\ ListenIncremental(1, path, value)
        /\ ~ReachesMapping(state, path)
        /\ path \in DOMAIN pending_ack) =>
         /\ state' = state
         /\ path \notin DOMAIN pending_ack'
         /\ fut[pending_ack[path]].st = "pending" =>
              fut'[pending_ack[path]] = [st |-> "result", val |-> value]]_vars

\* the call on the path that is in no tree has returned the frame's value and
\* left the registry, the other call still waits
C26_Witness ==
  /\ call[1].path = NoSuchPath /\ Outcome(1) = "returned" /\ fut[1].val = Num(0)
  /\ NoSuchPath \notin DOMAIN pending_ack
  /\ call[2].path = LayerOpacityPath(1) /\ Outcome(2) = "running"
  /\ LayerOpacityPath(1) \in DOMAIN pending_ack

\* C27 (as stated): Pending Correlations are identified by the normalized
\* path: a frame resolves the pending correlation of every registered path that
\* normalizes to the same segments as the frame's path, whether or not the two
\* strings are equal (with and without the leading /composition).
C27_ResolvedByNormalizedPath ==
  [][\A p \in Paths : \A v \in Values :
       ListenIncremental(1, p, v) =>
         \A q \in DOMAIN pending_ack :
           (PathSegs(q) = PathSegs(p) /\ NotDone(fut, pending_ack[q])) =>
             /\ fut'[pending_ack[q]] = [st |-> "result", val |-> v]
             /\ q \notin DOMAIN pending_ack']_vars

\* C27 (amended): Pending Correlations are identified by the path string as
\* the caller gave it: a frame resolves the pending correlation registered
\* under the very string of its path, and leaves registered and pending the
\* correlation of a path that differs from it only by the leading
\* /composition, although both name the node the frame patches.
C27_ResolvedByExactPath ==
  [][\A p \in Paths : \A v \in Values :
       ListenIncremental(1, p, v) =>
         /\ (p \in DOMAIN pending_ack /\ NotDone(fut, pending_ack[p])) =>
              /\ fut'[pending_ack[p]] = [st |-> "result", val |-> v]
              /\ p \notin DOMAIN pending_ack'
         /\ \A q \in DOMAIN pending_ack :
              (q # p /\ PathSegs(q) = PathSegs(p)) =>
                /\ q \in DOMAIN pending_ack' /\ pending_ack'[q] = pending_ack[q]
                /\ fut'[pending_ack[q]] = fut[pending_ack[q]]]_vars

\* the second call, on /layers/0/bypassed, has returned its frame's value; the
\* first call, registered before it on /composition/layers/0/bypassed, is
\* still waiting in the registry
C27_Witness ==
  /\ call[1].path = PathA /\ Outcome(1) = "running"
  /\ PathA \in DOMAIN pending_ack /\ pending_ack[PathA] = 1
  /\ call[2].path = PathA2 /\ Outcome(2) = "returned" /\ fut[2].val = Str("y")

\* the walk as described: a segment is taken as the index into a sequence when
\* it is numeric and the node is a sequence, and as a mapping key otherwise
IndexThenKeyStep(node, seg) ==
  IF IsIntLiteral(seg) /\ node.t = "list"
  THEN LET k == PyIndex(Len(node.items), IntOf(seg))
       IN IF k = 0 THEN NoStep ELSE [ok |-> TRUE, node |-> node.items[k]]
  ELSE IF node.t = "dict" /\ seg \in DOMAIN node.kv
       THEN [ok |-> TRUE, node |-> node.kv[seg]]
       ELSE NoStep

RECURSIVE IndexThenKeyWalk(_, _)
IndexThenKeyWalk(node, segs) ==
  IF segs = <<>> THEN [ok |-> TRUE, node |-> node]
  ELSE LET st == IndexThenKeyStep(node, Head(segs))
       IN IF st.ok THEN IndexThenKeyWalk(st.node, Tail(segs)) ELSE NoStep

\* the path names a leaf parameter by index-then-key
NamesLeaf(tree, path) ==
  LET w == IndexThenKeyWalk(tree, PathSegs(path))
  IN PathSegs(path) # <<>> /\ w.ok /\ IsDict(w.node) /\ "value" \in DOMAIN w.node.kv

\* C28: each segment is first tried as a numeric index and falls back to a
\* mapping key, in the patch walk and in the id resolver alike: for the tree
\* the client holds, the patch for a path that names a leaf parameter in this
\* way (a numeric segment on a mapping taken as the string key, a non-numeric
\* segment as a key) sets that leaf's value, and the resolver returns the `id`
\* the node so named holds.
C28_IndexThenKey ==
  \A path \in PatchPaths : \A value \in PatchValues :
    NamesLeaf(state, path) =>
      LET n == IndexThenKeyWalk(state, PathSegs(path)).node
          patched == ApplyIncrementalUpdate(state, path, value)
      IN /\ IndexThenKeyWalk(patched, PathSegs(path)).node.kv["value"] = value
         /\ ResolvePathToId(state, path) = IF "id" \in DOMAIN n.kv THEN n.kv["id"] ELSE Null

\* C29: an incremental frame writes `value` only when the node its path ends
\* at is a leaf parameter mapping, one that already carries `value`: when the
\* path ends at a mapping without `value`, at a sequence or at a scalar, the
\* tree is unchanged and no `value` key is added.
C29_OnlyLeafWritten ==
  [][\A path \in PatchPaths : \A value \in PatchValues :
       (ListenIncremental(1, path, value) /\ ~ResolvesToLeaf(state, path)) =>
         state' = state]_vars

\* a value no tree of the runs holds
Probe == Str("probe")

\* the places of the tree whose node the patch for the path writes to: the
\* mappings that hold the probe as `value` once the patch for (path, probe) is
\* applied
PatchedPlaces(tree, path) ==
  {pl \in Places(tree) :
     LET n == NodeAt(ApplyIncrementalUpdate(tree, path, Probe), pl)
     IN IsDict(n) /\ "value" \in DOMAIN n.kv /\ n.kv["value"] = Probe}

\* the `id` field of a node, Null when it has none
IdField(n) == IF IsDict(n) /\ "id" \in DOMAIN n.kv THEN n.kv["id"] ELSE Null

\* the paths asked for: those of the frames, and "/" and "/composition"
ResolvePaths == PatchPaths \cup FramePaths \cup {<<"", "">>}

\* C30 (as stated): the resolver walks as the patch does and never fails: for
\* every path and the tree the client holds (the empty tree too),
\* _resolve_path_to_id raises nothing and returns either not-found or the `id`
\* of the very node the patch for that path would write to.
C30_ResolverFollowsPatch ==
  \A path \in ResolvePaths :
    /\ ~ResolveEscapes(state, path)
    /\ \/ ResolvePathToId(state, path) = Null
       \/ \E pl \in PatchedPlaces(state, path) :
            ResolvePathToId(state, path) = IdField(NodeAt(state, pl))

\* C30 (amended): _resolve_path_to_id raises nothing; for a path with at
\* least one segment after normalization it returns the `id` of the very node
\* the patch for that path would write to, and not-found when the patch would
\* write to no node or that node has no `id`; for a path without segments
\* ("/", "/composition") the patch writes to no node, and the resolver answers
\* with the `id` field of the root, not-found when the root has none.
C30_ResolverFollowsPatchOnSegments ==
  \A path \in ResolvePaths :
    /\ ~ResolveEscapes(state, path)
    /\ Cardinality(PatchedPlaces(state, path)) <= 1
    /\ PathSegs(path) # <<>> =>
         /\ PatchedPlaces(state, path) = {} => ResolvePathToId(state, path) = Null
         /\ \A pl \in PatchedPlaces(state, path) :
              ResolvePathToId(state, path) = IdField(NodeAt(state, pl))
    /\ PathSegs(path) = <<>> =>
         /\ PatchedPlaces(state, path) = {}
         /\ ResolvePathToId(state, path) = IdField(state)

\* subscribe("/composition") has stored the root's id of a tree with an `id`
\* at its root, and a parameter's path has been resolved and stored as well
C30_Witness ==
  /\ IdField(state) = Num(1)
  /\ subscriptions = {ById(1), ById(7)}

\* the `set` frame that is to be written for a parameter: addressed by id when
\* the tree caches a number as the parameter's id, by the fixed path otherwise
ExpectedSet(tree, group, param, fixed, v) ==
  LET id == CachedParamId(tree, group, param)
  IN [action |-> "set",
      parameter |-> IF id.t = "num" THEN ById(id.v) ELSE fixed,
      value |-> v]

\* C31: set_bpm and set_crossfader each write exactly one `set` frame,
\* addressed by /parameter/by-id/<id> whenever the State Tree caches a numeric
\* id for the tempo (resp. crossfader phase) parameter, the id 0 included, and
\* by the fixed composition path only when no id is cached.
C31_SetByCachedId ==
  [][\A v \in TempoValues :
       /\ SetBpm(v) =>
            wire'[ws] = Append(wire[ws], ExpectedSet(state, "tempocontroller", "tempo", TempoPath, v))
       /\ SetCrossfader(v) =>
            wire'[ws] = Append(wire[ws], ExpectedSet(state, "crossfader", "phase", CrossfaderPath, v))]_vars

\* call d is outstanding and the registry holds its correlation
Registered(acks, f, d) ==
  /\ call[d].pc = "waiting" /\ f[d].st = "pending"
  /\ call[d].path \in DOMAIN acks /\ acks[call[d].path] = d

\* C32: when a second send_and_wait was made on the path of a first one still
\* outstanding, the end of the first call by its timeout does not disturb the
\* second: the second call's correlation is still registered afterwards (so a
\* frame for the path that arrives in time resolves it).
C32_TimeoutLeavesLaterCall ==
  [][\A c \in Calls :
       (WaitTimerFires(c) \/ WaitTimedOut(c)) =>
         \A d \in Calls \ {c} :
           Registered(pending_ack, fut, d) => Registered(pending_ack', fut', d)]_vars

\* the frames on the client's socket that rename a deck / that open a clip
IsRename(frame) ==
  /\ frame.action = "set"
  /\ \E k \in {1, 2} : frame.parameter = DeckNamePath(k)
IsClipOpen(frame) ==
  /\ frame.action = "post"
  /\ Len(frame.path) = 7 /\ frame.path[4] /= "add" /\ frame.path[7] = "open"
Written(Is(_)) == {k \in DOMAIN wire[1] : Is(wire[1][k])}

\* the deck-add call and the rename call of the bootstrap: the first and the
\* second send_and_wait made
AddCall == 1
RenameCall == 2
TimedOut(c) == call[c].pc \in {"timing_out", "timeout"}

\* the frame that is to open clip number i of the list
ExpectedClipOpen(i) ==
  LET layer == (i \div boot.grid_width) + 1
      col == i - boot.grid_width * (i \div boot.grid_width) + 1
  IN [action |-> "post",
      path |-> <<"", "composition", "layers", IntStr(layer), "clips", IntStr(col), "open">>,
      body |-> FileUrl(boot.clips[i + 1])]

\* C33: bootstrap_deck orders its commands: the rename is written only after
\* the deck-add correlated send has resolved, no clip-open is written before
\* the rename correlated send has resolved, at most 5 clip-open sends are in
\* flight at once, clip i goes to column (i mod grid_width)+1 of layer
\* (i div grid_width)+1, and once a correlated send has timed out no further
\* command of the bootstrap is written.
C33_BootstrapOrder ==
  [][/\ (Written(IsRename) # {})' => (fut[AddCall].st = "result")'
     /\ (Written(IsClipOpen) # {})' => (fut[RenameCall].st = "result")'
     /\ Cardinality(boot'.inflight) <= 5
     /\ \A i \in ClipNumbers : \A suspend \in BOOLEAN :
          (LoadClipSend(i, suspend) /\ SendResult(connected, ws) = "sent") =>
            wire'[1] = Append(wire[1], ExpectedClipOpen(i))
     /\ (TimedOut(AddCall) \/ TimedOut(RenameCall)) => wire' = wire]_vars

\* five clip-open sends are in flight and the sixth clip waits for a slot
C33_Witness ==
  /\ Cardinality(boot.inflight) = 5
  /\ boot.started = 5 /\ Len(boot.clips) = 6
  /\ Cardinality(Written(IsClipOpen)) = 5

\* C34: whenever the connected flag of the client (not in dry run) is true,
\* its current socket is open and a listener is running on that socket; no
\* closure in the middle of a connect or reconnect attempt leaves the flag
\* true over a closed socket.
C34_ConnectedMeansOpenSocket ==
  (~dry_run /\ connected) =>
    /\ ws # NoSocket
    /\ sock[ws].status = "open"
    /\ sock[ws].listener = "running"

\* a `set` frame for the path is on the wire of some socket
CommandWritten(path) ==
  \E s \in Sockets : \E k \in DOMAIN wire[s] :
    wire[s][k].action = "set" /\ wire[s][k].parameter = path

\* C35: a send_and_wait call returns a success (a frame's value, or None)
\* only if its command frame was written to a socket: a call made while the
\* client is not connected, whose command is dropped, never returns a success,
\* whatever frames arrive while it waits.
C35_SuccessOnlyIfWritten ==
  \A c \in Calls : Outcome(c) = "returned" => CommandWritten(call[c].path)

\* C36: unsubscribe(p) leaves the Subscription Set without an entry for p, be
\* it the raw path p or a by-id path: after subscribe(p) and a later
\* unsubscribe(p), also with a full-state frame in between that changes how p
\* resolves, p itself is not in the set.
C36_UnsubscribeRemoves ==
  [][\A path \in SubPaths : Unsubscribe(path) => path \notin subscriptions']_vars

\* C37: get_client keeps a single live client: whenever it makes a new
\* instance, the instance it replaces has no open socket, no running listener
\* and no running reconnect loop.
C37_SingleLiveClient ==
  [][(GetClient /\ tool'.client # tool.client) =>
       /\ \A s \in Sockets : sock[s].status # "open" /\ sock[s].listener # "running"
       /\ \A r \in Sockets : ~SupActive(r)]_vars

====
